---- MODULE Spec2Model ----
(***************************************************************************)
(* Procedural terrain streaming of the flight simulator                    *)
(* (src/components/terrain.tsx): the chunk registry kept by the Terrain    *)
(* component, the chunk generator, the eviction pass and the per-frame     *)
(* callback that drives them from the plane position; the plane            *)
(* (src/components/plane.tsx); the two video restyling components          *)
(* (src/components/video-restyling-vanilla.tsx, video-restyling-sdk.tsx)   *)
(* with their connections and timers; the prompt handlers of the page      *)
(* (src/app/page.tsx) and the RenderController (src/unnamed/part_000).     *)
(*                                                                         *)
(* Representation of numbers.                                              *)
(*   - A pseudo-random value r in [0,1) is the odd integer q with          *)
(*     r in [(q-1)/RngDen, (q+1)/RngDen): the midpoint of its bucket of    *)
(*     width 2/RngDen, in units of 1/RngDen.  Every threshold the code     *)
(*     compares r with (0.5, 0.6, 0.65, 0.85) and every floor(r*k) it      *)
(*     takes (k = 2, 4, 5, 5, 6) falls on a bucket edge, so the discrete   *)
(*     decisions of the generator are those of the code.                   *)
(*   - A length is an integer number of 1/LenScale world units, with       *)
(*     LenScale = 2*RngDen, so that base + r*k and (r-0.5)*chunkSize*f     *)
(*     are exact on bucket midpoints.                                      *)
(*   - Strings are sequences of one-character strings.                     *)
(***************************************************************************)
EXTENDS Integers, Sequences, FiniteSets, TLC

----------------------------------------------------------------------------
(* Bounds of the model *)

\* number of entries of Positions the position feed may deliver
NumPositions == 4

\* the plane positions the position feed delivers (world units)
Positions ==
  << [x |-> 0,   y |-> 0,  z |-> 0],
     [x |-> 100, y |-> 10, z |-> 0],
     [x |-> -30, y |-> 10, z |-> 0],
     [x |-> 600, y |-> 50, z |-> 0],
     [x |-> 300, y |-> 10, z |-> 0],
     [x |-> 40,  y |-> 10, z |-> 70] >>

ObserverPositions == { Positions[i] : i \in 1..NumPositions }

\* number of frames of the plane
MaxFrames == 1

\* number of keys held down at once
MaxHeld == 2

\* the invocations of startRestyling a component is followed through
MaxCalls == 2

\* the seconds the connection-time interval is counted up to
MaxConnectionTime == 1

\* the seconds the clock of the page runs for
MaxClock == 6

\* the microseconds the animation frames run for
MaxTimestamp == 400000

----------------------------------------------------------------------------
(* Fixed-point representation *)

RngDen == 240
RngHalf == RngDen \div 2
LenScale == 2 * RngDen

\* r < t/100 for a threshold written with two decimals in the source
RngLess(q, hundredths) == q * 100 < hundredths * RngDen
RngGreater(q, hundredths) == q * 100 > hundredths * RngDen
\* Math.floor(r * k)
RngFloor(q, k) == (q * k) \div RngDen
\* base + r * k, as a length
RngLen(base, q, k) == base * LenScale + ((q * k * LenScale) \div RngDen)
\* mutant: r - 0.5 taken twice
RngOffsetDoubled(q, size, tenths) ==
  ((q - RngHalf) * 2 * size * tenths * LenScale) \div (RngDen * 10)

\* (r - 0.5) * chunkSize * tenths/10, as a length
RngOffset(q, size, tenths) == ((q - RngHalf) * size * tenths * LenScale) \div (RngDen * 10)

Abs(n) == IF n < 0 THEN -n ELSE n

\* dx*dx + dz*dz for lengths dx, dz, as <<hi, lo>> with value
\* hi * LenScale^2 + lo and 0 <= lo < LenScale^2 (TLC integers are 32 bits)
SquareParts(d) ==
  LET a == Abs(d) \div LenScale
      b == Abs(d) % LenScale
      t == 2 * a * b * LenScale + b * b
  IN  << a * a + (t \div (LenScale * LenScale)), t % (LenScale * LenScale) >>

SumOfSquares(dx, dz) ==
  LET sx == SquareParts(dx)
      sz == SquareParts(dz)
      lo == sx[2] + sz[2]
  IN  << sx[1] + sz[1] + (lo \div (LenScale * LenScale)), lo % (LenScale * LenScale) >>

\* NaN, as a coordinate of the plane: an integer no position of the model
\* has.  Every arithmetic operation on NaN gives NaN and every comparison
\* with NaN is false.
NaN == -1000000
IsNaN(v) == v = NaN

\* mutant: the square window in place of the circle
DistanceLessSquare(dx, dz, d) == Abs(dx) < d * LenScale /\ Abs(dz) < d * LenScale

\* Math.sqrt(dx*dx + dz*dz) compared with a distance d given in world units
DistanceLess(dx, dz, d) == SumOfSquares(dx, dz)[1] < d * d
DistanceAtLeast(dx, dz, d) == SumOfSquares(dx, dz)[1] >= d * d
DistanceGreater(dx, dz, d) ==
  LET s == SumOfSquares(dx, dz)
  IN  s[1] > d * d \/ (s[1] = d * d /\ s[2] > 0)

----------------------------------------------------------------------------
(* Strings *)

Digits == << "0", "1", "2", "3", "4", "5", "6", "7", "8", "9" >>

RECURSIVE NatToString(_)
NatToString(n) ==
  IF n < 10 THEN << Digits[n + 1] >>
  ELSE NatToString(n \div 10) \o << Digits[(n % 10) + 1] >>

\* `${n}` for an integer n
NumberToString(n) == IF n < 0 THEN << "-" >> \o NatToString(-n) ELSE NatToString(n)

DigitValue(c) == (CHOOSE i \in 1..10 : Digits[i] = c) - 1

RECURSIVE StringToNat(_)
StringToNat(s) ==
  IF Len(s) = 0 THEN 0
  ELSE StringToNat(SubSeq(s, 1, Len(s) - 1)) * 10 + DigitValue(s[Len(s)])

\* Number(s) for the decimal strings the registry holds
StringToNumber(s) ==
  IF Len(s) > 0 /\ s[1] = "-" THEN -StringToNat(Tail(s)) ELSE StringToNat(s)

\* s.split(",")
RECURSIVE SplitComma(_)
SplitComma(s) ==
  IF \E i \in 1..Len(s) : s[i] = ","
  THEN LET i == CHOOSE j \in 1..Len(s) : s[j] = "," /\ \A k \in 1..(j - 1) : s[k] # ","
       IN  << SubSeq(s, 1, i - 1) >> \o SplitComma(SubSeq(s, i + 1, Len(s)))
  ELSE << s >>

----------------------------------------------------------------------------
(* Maps (JavaScript Map objects) as functions *)

EmptyMap == << >>
MapSet(m, k, v) == (k :> v) @@ m
MapDeleteAll(m, ks) == [k \in (DOMAIN m) \ ks |-> m[k]]

\* m.set(k, v) for each <<k, v>> of entries, first to last
RECURSIVE MapSetEach(_, _)
MapSetEach(m, entries) ==
  IF entries = << >> THEN m
  ELSE MapSetEach(MapSet(m, Head(entries)[1], Head(entries)[2]), Tail(entries))

----------------------------------------------------------------------------
(* Math.sin tabulated on the seeds of the bounded world *)

\* <<seed, q>>: q is the bucket midpoint of Math.sin(seed) * 10000 minus its floor,
\* for seed = chunkX * 73856093 + chunkZ * 19349663 + salt with chunkX in -4..7,
\* chunkZ in -3..3 and salt in 0..40
SinTable ==
  {
    <<-353473361, 131>>, <<-353473360, 191>>, <<-353473359, 111>>, <<-353473358, 201>>, <<-353473357, 159>>, <<-353473356, 165>>,
    <<-353473355, 79>>, <<-353473354, 119>>, <<-353473353, 107>>, <<-353473352, 163>>, <<-353473351, 139>>, <<-353473350, 129>>,
    <<-353473349, 57>>, <<-353473348, 69>>, <<-353473347, 67>>, <<-353473346, 211>>, <<-353473345, 53>>, <<-353473344, 115>>,
    <<-353473343, 3>>, <<-353473342, 161>>, <<-353473341, 3>>, <<-353473340, 15>>, <<-353473339, 187>>, <<-353473338, 159>>,
    <<-353473337, 195>>, <<-353473336, 149>>, <<-353473335, 81>>, <<-353473334, 185>>, <<-353473333, 155>>, <<-353473332, 69>>,
    <<-353473331, 65>>, <<-353473330, 113>>, <<-353473329, 139>>, <<-353473328, 209>>, <<-353473327, 39>>, <<-353473326, 235>>,
    <<-353473325, 175>>, <<-353473324, 57>>, <<-353473323, 151>>, <<-353473322, 159>>, <<-353473321, 127>>, <<-334123698, 45>>,
    <<-334123697, 239>>, <<-334123696, 83>>, <<-334123695, 29>>, <<-334123694, 87>>, <<-334123693, 151>>, <<-334123692, 191>>,
    <<-334123691, 141>>, <<-334123690, 217>>, <<-334123689, 33>>, <<-334123688, 231>>, <<-334123687, 121>>, <<-334123686, 69>>,
    <<-334123685, 117>>, <<-334123684, 153>>, <<-334123683, 133>>, <<-334123682, 183>>, <<-334123681, 147>>, <<-334123680, 167>>,
    <<-334123679, 197>>, <<-334123678, 215>>, <<-334123677, 137>>, <<-334123676, 109>>, <<-334123675, 29>>, <<-334123674, 13>>,
    <<-334123673, 11>>, <<-334123672, 31>>, <<-334123671, 199>>, <<-334123670, 37>>, <<-334123669, 19>>, <<-334123668, 185>>,
    <<-334123667, 21>>, <<-334123666, 109>>, <<-334123665, 119>>, <<-334123664, 185>>, <<-334123663, 165>>, <<-334123662, 11>>,
    <<-334123661, 211>>, <<-334123660, 207>>, <<-334123659, 123>>, <<-334123658, 81>>, <<-314774035, 121>>, <<-314774034, 143>>,
    <<-314774033, 121>>, <<-314774032, 111>>, <<-314774031, 133>>, <<-314774030, 147>>, <<-314774029, 195>>, <<-314774028, 21>>,
    <<-314774027, 187>>, <<-314774026, 161>>, <<-314774025, 187>>, <<-314774024, 217>>, <<-314774023, 143>>, <<-314774022, 205>>,
    <<-314774021, 137>>, <<-314774020, 25>>, <<-314774019, 25>>, <<-314774018, 85>>, <<-314774017, 109>>, <<-314774016, 165>>,
    <<-314774015, 91>>, <<-314774014, 125>>, <<-314774013, 115>>, <<-314774012, 15>>, <<-314774011, 39>>, <<-314774010, 21>>,
    <<-314774009, 27>>, <<-314774008, 91>>, <<-314774007, 11>>, <<-314774006, 37>>, <<-314774005, 171>>, <<-314774004, 215>>,
    <<-314774003, 201>>, <<-314774002, 45>>, <<-314774001, 195>>, <<-314774000, 227>>, <<-314773999, 119>>, <<-314773998, 215>>,
    <<-314773997, 83>>, <<-314773996, 203>>, <<-314773995, 5>>, <<-295424372, 53>>, <<-295424371, 57>>, <<-295424370, 121>>,
    <<-295424369, 209>>, <<-295424368, 201>>, <<-295424367, 213>>, <<-295424366, 33>>, <<-295424365, 63>>, <<-295424364, 115>>,
    <<-295424363, 183>>, <<-295424362, 55>>, <<-295424361, 211>>, <<-295424360, 23>>, <<-295424359, 229>>, <<-295424358, 215>>,
    <<-295424357, 67>>, <<-295424356, 121>>, <<-295424355, 63>>, <<-295424354, 65>>, <<-295424353, 237>>, <<-295424352, 49>>,
    <<-295424351, 7>>, <<-295424350, 149>>, <<-295424349, 229>>, <<-295424348, 3>>, <<-295424347, 115>>, <<-295424346, 167>>,
    <<-295424345, 85>>, <<-295424344, 119>>, <<-295424343, 55>>, <<-295424342, 57>>, <<-295424341, 159>>, <<-295424340, 117>>,
    <<-295424339, 115>>, <<-295424338, 41>>, <<-295424337, 211>>, <<-295424336, 193>>, <<-295424335, 57>>, <<-295424334, 97>>,
    <<-295424333, 157>>, <<-295424332, 165>>, <<-276074709, 45>>, <<-276074708, 135>>, <<-276074707, 159>>, <<-276074706, 237>>,
    <<-276074705, 57>>, <<-276074704, 11>>, <<-276074703, 123>>, <<-276074702, 145>>, <<-276074701, 213>>, <<-276074700, 47>>,
    <<-276074699, 209>>, <<-276074698, 207>>, <<-276074697, 41>>, <<-276074696, 5>>, <<-276074695, 199>>, <<-276074694, 151>>,
    <<-276074693, 195>>, <<-276074692, 41>>, <<-276074691, 215>>, <<-276074690, 71>>, <<-276074689, 29>>, <<-276074688, 207>>,
    <<-276074687, 157>>, <<-276074686, 185>>, <<-276074685, 111>>, <<-276074684, 45>>, <<-276074683, 161>>, <<-276074682, 179>>,
    <<-276074681, 3>>, <<-276074680, 127>>, <<-276074679, 197>>, <<-276074678, 159>>, <<-276074677, 173>>, <<-276074676, 179>>,
    <<-276074675, 169>>, <<-276074674, 215>>, <<-276074673, 53>>, <<-276074672, 101>>, <<-276074671, 121>>, <<-276074670, 83>>,
    <<-276074669, 169>>, <<-256725046, 91>>, <<-256725045, 23>>, <<-256725044, 123>>, <<-256725043, 63>>, <<-256725042, 85>>,
    <<-256725041, 221>>, <<-256725040, 151>>, <<-256725039, 17>>, <<-256725038, 235>>, <<-256725037, 75>>, <<-256725036, 35>>,
    <<-256725035, 173>>, <<-256725034, 137>>, <<-256725033, 37>>, <<-256725032, 177>>, <<-256725031, 83>>, <<-256725030, 175>>,
    <<-256725029, 101>>, <<-256725028, 175>>, <<-256725027, 13>>, <<-256725026, 23>>, <<-256725025, 53>>, <<-256725024, 151>>,
    <<-256725023, 157>>, <<-256725022, 201>>, <<-256725021, 135>>, <<-256725020, 159>>, <<-256725019, 11>>, <<-256725018, 21>>,
    <<-256725017, 197>>, <<-256725016, 43>>, <<-256725015, 53>>, <<-256725014, 75>>, <<-256725013, 79>>, <<-256725012, 159>>,
    <<-256725011, 197>>, <<-256725010, 217>>, <<-256725009, 209>>, <<-256725008, 25>>, <<-256725007, 29>>, <<-256725006, 43>>,
    <<-237375383, 69>>, <<-237375382, 125>>, <<-237375381, 227>>, <<-237375380, 169>>, <<-237375379, 87>>, <<-237375378, 89>>,
    <<-237375377, 115>>, <<-237375376, 217>>, <<-237375375, 141>>, <<-237375374, 91>>, <<-237375373, 113>>, <<-237375372, 221>>,
    <<-237375371, 59>>, <<-237375370, 169>>, <<-237375369, 129>>, <<-237375368, 17>>, <<-237375367, 207>>, <<-237375366, 45>>,
    <<-237375365, 167>>, <<-237375364, 155>>, <<-237375363, 103>>, <<-237375362, 179>>, <<-237375361, 73>>, <<-237375360, 19>>,
    <<-237375359, 35>>, <<-237375358, 233>>, <<-237375357, 73>>, <<-237375356, 17>>, <<-237375355, 29>>, <<-237375354, 131>>,
    <<-237375353, 35>>, <<-237375352, 17>>, <<-237375351, 163>>, <<-237375350, 167>>, <<-237375349, 33>>, <<-237375348, 191>>,
    <<-237375347, 171>>, <<-237375346, 157>>, <<-237375345, 185>>, <<-237375344, 163>>, <<-237375343, 185>>, <<-279617268, 191>>,
    <<-279617267, 129>>, <<-279617266, 17>>, <<-279617265, 115>>, <<-279617264, 231>>, <<-279617263, 181>>, <<-279617262, 81>>,
    <<-279617261, 61>>, <<-279617260, 35>>, <<-279617259, 159>>, <<-279617258, 227>>, <<-279617257, 111>>, <<-279617256, 171>>,
    <<-279617255, 75>>, <<-279617254, 183>>, <<-279617253, 169>>, <<-279617252, 237>>, <<-279617251, 159>>, <<-279617250, 9>>,
    <<-279617249, 87>>, <<-279617248, 133>>, <<-279617247, 89>>, <<-279617246, 223>>, <<-279617245, 193>>, <<-279617244, 9>>,
    <<-279617243, 147>>, <<-279617242, 73>>, <<-279617241, 221>>, <<-279617240, 81>>, <<-279617239, 1>>, <<-279617238, 225>>,
    <<-279617237, 107>>, <<-279617236, 95>>, <<-279617235, 65>>, <<-279617234, 175>>, <<-279617233, 87>>, <<-279617232, 227>>,
    <<-279617231, 7>>, <<-279617230, 223>>, <<-279617229, 27>>, <<-279617228, 67>>, <<-260267605, 133>>, <<-260267604, 71>>,
    <<-260267603, 75>>, <<-260267602, 159>>, <<-260267601, 47>>, <<-260267600, 187>>, <<-260267599, 179>>, <<-260267598, 111>>,
    <<-260267597, 175>>, <<-260267596, 175>>, <<-260267595, 3>>, <<-260267594, 41>>, <<-260267593, 149>>, <<-260267592, 19>>,
    <<-260267591, 165>>, <<-260267590, 187>>, <<-260267589, 137>>, <<-260267588, 237>>, <<-260267587, 157>>, <<-260267586, 137>>,
    <<-260267585, 129>>, <<-260267584, 209>>, <<-260267583, 69>>, <<-260267582, 165>>, <<-260267581, 221>>, <<-260267580, 113>>,
    <<-260267579, 5>>, <<-260267578, 49>>, <<-260267577, 117>>, <<-260267576, 201>>, <<-260267575, 109>>, <<-260267574, 49>>,
    <<-260267573, 45>>, <<-260267572, 239>>, <<-260267571, 211>>, <<-260267570, 107>>, <<-260267569, 107>>, <<-260267568, 143>>,
    <<-260267567, 171>>, <<-260267566, 185>>, <<-260267565, 203>>, <<-240917942, 171>>, <<-240917941, 205>>, <<-240917940, 75>>,
    <<-240917939, 205>>, <<-240917938, 91>>, <<-240917937, 229>>, <<-240917936, 75>>, <<-240917935, 221>>, <<-240917934, 63>>,
    <<-240917933, 183>>, <<-240917932, 131>>, <<-240917931, 237>>, <<-240917930, 119>>, <<-240917929, 221>>, <<-240917928, 115>>,
    <<-240917927, 85>>, <<-240917926, 229>>, <<-240917925, 105>>, <<-240917924, 175>>, <<-240917923, 141>>, <<-240917922, 95>>,
    <<-240917921, 33>>, <<-240917920, 111>>, <<-240917919, 7>>, <<-240917918, 173>>, <<-240917917, 69>>, <<-240917916, 197>>,
    <<-240917915, 195>>, <<-240917914, 3>>, <<-240917913, 53>>, <<-240917912, 201>>, <<-240917911, 203>>, <<-240917910, 191>>,
    <<-240917909, 109>>, <<-240917908, 105>>, <<-240917907, 41>>, <<-240917906, 235>>, <<-240917905, 193>>, <<-240917904, 199>>,
    <<-240917903, 219>>, <<-240917902, 71>>, <<-221568279, 135>>, <<-221568278, 19>>, <<-221568277, 31>>, <<-221568276, 121>>,
    <<-221568275, 23>>, <<-221568274, 55>>, <<-221568273, 103>>, <<-221568272, 221>>, <<-221568271, 77>>, <<-221568270, 95>>,
    <<-221568269, 221>>, <<-221568268, 29>>, <<-221568267, 7>>, <<-221568266, 57>>, <<-221568265, 21>>, <<-221568264, 5>>,
    <<-221568263, 171>>, <<-221568262, 95>>, <<-221568261, 135>>, <<-221568260, 21>>, <<-221568259, 139>>, <<-221568258, 199>>,
    <<-221568257, 147>>, <<-221568256, 223>>, <<-221568255, 221>>, <<-221568254, 155>>, <<-221568253, 105>>, <<-221568252, 207>>,
    <<-221568251, 49>>, <<-221568250, 103>>, <<-221568249, 173>>, <<-221568248, 217>>, <<-221568247, 39>>, <<-221568246, 85>>,
    <<-221568245, 47>>, <<-221568244, 37>>, <<-221568243, 93>>, <<-221568242, 159>>, <<-221568241, 57>>, <<-221568240, 133>>,
    <<-221568239, 125>>, <<-202218616, 9>>, <<-202218615, 83>>, <<-202218614, 43>>, <<-202218613, 39>>, <<-202218612, 23>>,
    <<-202218611, 157>>, <<-202218610, 189>>, <<-202218609, 33>>, <<-202218608, 205>>, <<-202218607, 129>>, <<-202218606, 135>>,
    <<-202218605, 179>>, <<-202218604, 119>>, <<-202218603, 77>>, <<-202218602, 213>>, <<-202218601, 21>>, <<-202218600, 161>>,
    <<-202218599, 147>>, <<-202218598, 157>>, <<-202218597, 239>>, <<-202218596, 39>>, <<-202218595, 231>>, <<-202218594, 23>>,
    <<-202218593, 13>>, <<-202218592, 77>>, <<-202218591, 195>>, <<-202218590, 101>>, <<-202218589, 183>>, <<-202218588, 37>>,
    <<-202218587, 33>>, <<-202218586, 137>>, <<-202218585, 191>>, <<-202218584, 215>>, <<-202218583, 71>>, <<-202218582, 131>>,
    <<-202218581, 175>>, <<-202218580, 49>>, <<-202218579, 239>>, <<-202218578, 191>>, <<-202218577, 165>>, <<-202218576, 125>>,
    <<-182868953, 125>>, <<-182868952, 219>>, <<-182868951, 1>>, <<-182868950, 207>>, <<-182868949, 191>>, <<-182868948, 67>>,
    <<-182868947, 163>>, <<-182868946, 67>>, <<-182868945, 23>>, <<-182868944, 99>>, <<-182868943, 119>>, <<-182868942, 213>>,
    <<-182868941, 119>>, <<-182868940, 5>>, <<-182868939, 153>>, <<-182868938, 33>>, <<-182868937, 33>>, <<-182868936, 15>>,
    <<-182868935, 129>>, <<-182868934, 17>>, <<-182868933, 49>>, <<-182868932, 169>>, <<-182868931, 71>>, <<-182868930, 229>>,
    <<-182868929, 71>>, <<-182868928, 167>>, <<-182868927, 213>>, <<-182868926, 105>>, <<-182868925, 57>>, <<-182868924, 155>>,
    <<-182868923, 97>>, <<-182868922, 31>>, <<-182868921, 143>>, <<-182868920, 33>>, <<-182868919, 179>>, <<-182868918, 119>>,
    <<-182868917, 39>>, <<-182868916, 99>>, <<-182868915, 207>>, <<-182868914, 209>>, <<-182868913, 159>>, <<-163519290, 53>>,
    <<-163519289, 159>>, <<-163519288, 19>>, <<-163519287, 39>>, <<-163519286, 225>>, <<-163519285, 45>>, <<-163519284, 41>>,
    <<-163519283, 221>>, <<-163519282, 189>>, <<-163519281, 31>>, <<-163519280, 231>>, <<-163519279, 175>>, <<-163519278, 45>>,
    <<-163519277, 139>>, <<-163519276, 235>>, <<-163519275, 163>>, <<-163519274, 31>>, <<-163519273, 101>>, <<-163519272, 193>>,
    <<-163519271, 73>>, <<-163519270, 19>>, <<-163519269, 3>>, <<-163519268, 185>>, <<-163519267, 143>>, <<-163519266, 111>>,
    <<-163519265, 15>>, <<-163519264, 207>>, <<-163519263, 77>>, <<-163519262, 161>>, <<-163519261, 45>>, <<-163519260, 103>>,
    <<-163519259, 217>>, <<-163519258, 63>>, <<-163519257, 137>>, <<-163519256, 185>>, <<-163519255, 93>>, <<-163519254, 215>>,
    <<-163519253, 165>>, <<-163519252, 103>>, <<-163519251, 213>>, <<-163519250, 3>>, <<-205761175, 101>>, <<-205761174, 49>>,
    <<-205761173, 143>>, <<-205761172, 189>>, <<-205761171, 153>>, <<-205761170, 105>>, <<-205761169, 45>>, <<-205761168, 239>>,
    <<-205761167, 221>>, <<-205761166, 113>>, <<-205761165, 239>>, <<-205761164, 95>>, <<-205761163, 75>>, <<-205761162, 161>>,
    <<-205761161, 31>>, <<-205761160, 203>>, <<-205761159, 203>>, <<-205761158, 167>>, <<-205761157, 229>>, <<-205761156, 211>>,
    <<-205761155, 205>>, <<-205761154, 63>>, <<-205761153, 237>>, <<-205761152, 231>>, <<-205761151, 135>>, <<-205761150, 225>>,
    <<-205761149, 33>>, <<-205761148, 129>>, <<-205761147, 63>>, <<-205761146, 239>>, <<-205761145, 129>>, <<-205761144, 193>>,
    <<-205761143, 111>>, <<-205761142, 221>>, <<-205761141, 143>>, <<-205761140, 41>>, <<-205761139, 187>>, <<-205761138, 89>>,
    <<-205761137, 61>>, <<-205761136, 231>>, <<-205761135, 35>>, <<-186411512, 21>>, <<-186411511, 81>>, <<-186411510, 183>>,
    <<-186411509, 75>>, <<-186411508, 63>>, <<-186411507, 107>>, <<-186411506, 13>>, <<-186411505, 17>>, <<-186411504, 175>>,
    <<-186411503, 169>>, <<-186411502, 5>>, <<-186411501, 87>>, <<-186411500, 97>>, <<-186411499, 79>>, <<-186411498, 211>>,
    <<-186411497, 81>>, <<-186411496, 43>>, <<-186411495, 97>>, <<-186411494, 211>>, <<-186411493, 125>>, <<-186411492, 191>>,
    <<-186411491, 81>>, <<-186411490, 137>>, <<-186411489, 77>>, <<-186411488, 137>>, <<-186411487, 9>>, <<-186411486, 33>>,
    <<-186411485, 205>>, <<-186411484, 43>>, <<-186411483, 191>>, <<-186411482, 217>>, <<-186411481, 165>>, <<-186411480, 139>>,
    <<-186411479, 173>>, <<-186411478, 127>>, <<-186411477, 199>>, <<-186411476, 107>>, <<-186411475, 49>>, <<-186411474, 159>>,
    <<-186411473, 229>>, <<-186411472, 121>>, <<-167061849, 57>>, <<-167061848, 213>>, <<-167061847, 29>>, <<-167061846, 49>>,
    <<-167061845, 133>>, <<-167061844, 161>>, <<-167061843, 173>>, <<-167061842, 31>>, <<-167061841, 187>>, <<-167061840, 129>>,
    <<-167061839, 97>>, <<-167061838, 45>>, <<-167061837, 201>>, <<-167061836, 135>>, <<-167061835, 143>>, <<-167061834, 101>>,
    <<-167061833, 167>>, <<-167061832, 19>>, <<-167061831, 11>>, <<-167061830, 9>>, <<-167061829, 225>>, <<-167061828, 15>>,
    <<-167061827, 145>>, <<-167061826, 49>>, <<-167061825, 23>>, <<-167061824, 205>>, <<-167061823, 61>>, <<-167061822, 143>>,
    <<-167061821, 195>>, <<-167061820, 185>>, <<-167061819, 177>>, <<-167061818, 5>>, <<-167061817, 65>>, <<-167061816, 1>>,
    <<-167061815, 161>>, <<-167061814, 221>>, <<-167061813, 59>>, <<-167061812, 13>>, <<-167061811, 209>>, <<-167061810, 17>>,
    <<-167061809, 53>>, <<-147712186, 31>>, <<-147712185, 135>>, <<-147712184, 23>>, <<-147712183, 141>>, <<-147712182, 21>>,
    <<-147712181, 233>>, <<-147712180, 239>>, <<-147712179, 113>>, <<-147712178, 151>>, <<-147712177, 233>>, <<-147712176, 117>>,
    <<-147712175, 15>>, <<-147712174, 13>>, <<-147712173, 217>>, <<-147712172, 23>>, <<-147712171, 133>>, <<-147712170, 91>>,
    <<-147712169, 129>>, <<-147712168, 179>>, <<-147712167, 85>>, <<-147712166, 211>>, <<-147712165, 231>>, <<-147712164, 227>>,
    <<-147712163, 9>>, <<-147712162, 29>>, <<-147712161, 117>>, <<-147712160, 117>>, <<-147712159, 69>>, <<-147712158, 55>>,
    <<-147712157, 57>>, <<-147712156, 125>>, <<-147712155, 225>>, <<-147712154, 45>>, <<-147712153, 179>>, <<-147712152, 155>>,
    <<-147712151, 77>>, <<-147712150, 129>>, <<-147712149, 49>>, <<-147712148, 65>>, <<-147712147, 53>>, <<-147712146, 37>>,
    <<-128362523, 11>>, <<-128362522, 35>>, <<-128362521, 185>>, <<-128362520, 159>>, <<-128362519, 99>>, <<-128362518, 75>>,
    <<-128362517, 231>>, <<-128362516, 43>>, <<-128362515, 115>>, <<-128362514, 3>>, <<-128362513, 109>>, <<-128362512, 73>>,
    <<-128362511, 87>>, <<-128362510, 9>>, <<-128362509, 203>>, <<-128362508, 123>>, <<-128362507, 193>>, <<-128362506, 161>>,
    <<-128362505, 185>>, <<-128362504, 57>>, <<-128362503, 47>>, <<-128362502, 171>>, <<-128362501, 139>>, <<-128362500, 19>>,
    <<-128362499, 125>>, <<-128362498, 135>>, <<-128362497, 17>>, <<-128362496, 207>>, <<-128362495, 141>>, <<-128362494, 27>>,
    <<-128362493, 201>>, <<-128362492, 37>>, <<-128362491, 213>>, <<-128362490, 161>>, <<-128362489, 29>>, <<-128362488, 163>>,
    <<-128362487, 83>>, <<-128362486, 39>>, <<-128362485, 165>>, <<-128362484, 65>>, <<-128362483, 95>>, <<-109012860, 43>>,
    <<-109012859, 199>>, <<-109012858, 135>>, <<-109012857, 103>>, <<-109012856, 143>>, <<-109012855, 73>>, <<-109012854, 141>>,
    <<-109012853, 159>>, <<-109012852, 227>>, <<-109012851, 211>>, <<-109012850, 177>>, <<-109012849, 195>>, <<-109012848, 213>>,
    <<-109012847, 201>>, <<-109012846, 71>>, <<-109012845, 27>>, <<-109012844, 123>>, <<-109012843, 193>>, <<-109012842, 211>>,
    <<-109012841, 83>>, <<-109012840, 7>>, <<-109012839, 65>>, <<-109012838, 211>>, <<-109012837, 157>>, <<-109012836, 177>>,
    <<-109012835, 153>>, <<-109012834, 97>>, <<-109012833, 17>>, <<-109012832, 131>>, <<-109012831, 113>>, <<-109012830, 45>>,
    <<-109012829, 91>>, <<-109012828, 125>>, <<-109012827, 145>>, <<-109012826, 3>>, <<-109012825, 211>>, <<-109012824, 103>>,
    <<-109012823, 33>>, <<-109012822, 123>>, <<-109012821, 213>>, <<-109012820, 147>>, <<-89663197, 25>>, <<-89663196, 11>>,
    <<-89663195, 37>>, <<-89663194, 231>>, <<-89663193, 225>>, <<-89663192, 193>>, <<-89663191, 221>>, <<-89663190, 115>>,
    <<-89663189, 139>>, <<-89663188, 73>>, <<-89663187, 197>>, <<-89663186, 235>>, <<-89663185, 197>>, <<-89663184, 87>>,
    <<-89663183, 57>>, <<-89663182, 69>>, <<-89663181, 221>>, <<-89663180, 19>>, <<-89663179, 83>>, <<-89663178, 157>>,
    <<-89663177, 159>>, <<-89663176, 53>>, <<-89663175, 189>>, <<-89663174, 51>>, <<-89663173, 191>>, <<-89663172, 15>>,
    <<-89663171, 17>>, <<-89663170, 79>>, <<-89663169, 205>>, <<-89663168, 127>>, <<-89663167, 205>>, <<-89663166, 115>>,
    <<-89663165, 173>>, <<-89663164, 27>>, <<-89663163, 91>>, <<-89663162, 29>>, <<-89663161, 77>>, <<-89663160, 33>>,
    <<-89663159, 215>>, <<-89663158, 75>>, <<-89663157, 201>>, <<-131905082, 109>>, <<-131905081, 49>>, <<-131905080, 133>>,
    <<-131905079, 17>>, <<-131905078, 195>>, <<-131905077, 205>>, <<-131905076, 149>>, <<-131905075, 165>>, <<-131905074, 79>>,
    <<-131905073, 93>>, <<-131905072, 17>>, <<-131905071, 129>>, <<-131905070, 237>>, <<-131905069, 237>>, <<-131905068, 11>>,
    <<-131905067, 129>>, <<-131905066, 25>>, <<-131905065, 181>>, <<-131905064, 219>>, <<-131905063, 167>>, <<-131905062, 97>>,
    <<-131905061, 35>>, <<-131905060, 143>>, <<-131905059, 123>>, <<-131905058, 231>>, <<-131905057, 207>>, <<-131905056, 111>>,
    <<-131905055, 127>>, <<-131905054, 103>>, <<-131905053, 71>>, <<-131905052, 151>>, <<-131905051, 101>>, <<-131905050, 43>>,
    <<-131905049, 209>>, <<-131905048, 161>>, <<-131905047, 67>>, <<-131905046, 139>>, <<-131905045, 201>>, <<-131905044, 31>>,
    <<-131905043, 21>>, <<-131905042, 69>>, <<-112555419, 159>>, <<-112555418, 1>>, <<-112555417, 215>>, <<-112555416, 9>>,
    <<-112555415, 221>>, <<-112555414, 191>>, <<-112555413, 181>>, <<-112555412, 227>>, <<-112555411, 217>>, <<-112555410, 13>>,
    <<-112555409, 95>>, <<-112555408, 227>>, <<-112555407, 57>>, <<-112555406, 83>>, <<-112555405, 219>>, <<-112555404, 137>>,
    <<-112555403, 115>>, <<-112555402, 149>>, <<-112555401, 217>>, <<-112555400, 125>>, <<-112555399, 119>>, <<-112555398, 221>>,
    <<-112555397, 67>>, <<-112555396, 19>>, <<-112555395, 217>>, <<-112555394, 135>>, <<-112555393, 131>>, <<-112555392, 137>>,
    <<-112555391, 65>>, <<-112555390, 219>>, <<-112555389, 79>>, <<-112555388, 81>>, <<-112555387, 191>>, <<-112555386, 115>>,
    <<-112555385, 175>>, <<-112555384, 199>>, <<-112555383, 161>>, <<-112555382, 123>>, <<-112555381, 199>>, <<-112555380, 53>>,
    <<-112555379, 101>>, <<-93205756, 129>>, <<-93205755, 145>>, <<-93205754, 115>>, <<-93205753, 77>>, <<-93205752, 45>>,
    <<-93205751, 19>>, <<-93205750, 221>>, <<-93205749, 47>>, <<-93205748, 23>>, <<-93205747, 185>>, <<-93205746, 95>>,
    <<-93205745, 71>>, <<-93205744, 3>>, <<-93205743, 115>>, <<-93205742, 225>>, <<-93205741, 53>>, <<-93205740, 223>>,
    <<-93205739, 235>>, <<-93205738, 175>>, <<-93205737, 143>>, <<-93205736, 173>>, <<-93205735, 165>>, <<-93205734, 179>>,
    <<-93205733, 25>>, <<-93205732, 183>>, <<-93205731, 59>>, <<-93205730, 221>>, <<-93205729, 107>>, <<-93205728, 87>>,
    <<-93205727, 211>>, <<-93205726, 205>>, <<-93205725, 43>>, <<-93205724, 31>>, <<-93205723, 13>>, <<-93205722, 219>>,
    <<-93205721, 205>>, <<-93205720, 167>>, <<-93205719, 161>>, <<-93205718, 47>>, <<-93205717, 5>>, <<-93205716, 7>>,
    <<-73856093, 201>>, <<-73856092, 231>>, <<-73856091, 31>>, <<-73856090, 37>>, <<-73856089, 33>>, <<-73856088, 187>>,
    <<-73856087, 203>>, <<-73856086, 97>>, <<-73856085, 125>>, <<-73856084, 231>>, <<-73856083, 53>>, <<-73856082, 165>>,
    <<-73856081, 13>>, <<-73856080, 183>>, <<-73856079, 183>>, <<-73856078, 187>>, <<-73856077, 141>>, <<-73856076, 159>>,
    <<-73856075, 219>>, <<-73856074, 223>>, <<-73856073, 67>>, <<-73856072, 3>>, <<-73856071, 117>>, <<-73856070, 231>>,
    <<-73856069, 55>>, <<-73856068, 89>>, <<-73856067, 197>>, <<-73856066, 41>>, <<-73856065, 55>>, <<-73856064, 211>>,
    <<-73856063, 1>>, <<-73856062, 35>>, <<-73856061, 83>>, <<-73856060, 133>>, <<-73856059, 157>>, <<-73856058, 125>>,
    <<-73856057, 235>>, <<-73856056, 213>>, <<-73856055, 201>>, <<-73856054, 225>>, <<-73856053, 161>>, <<-54506430, 201>>,
    <<-54506429, 161>>, <<-54506428, 97>>, <<-54506427, 187>>, <<-54506426, 93>>, <<-54506425, 97>>, <<-54506424, 225>>,
    <<-54506423, 55>>, <<-54506422, 119>>, <<-54506421, 121>>, <<-54506420, 143>>, <<-54506419, 235>>, <<-54506418, 31>>,
    <<-54506417, 61>>, <<-54506416, 203>>, <<-54506415, 105>>, <<-54506414, 129>>, <<-54506413, 233>>, <<-54506412, 163>>,
    <<-54506411, 113>>, <<-54506410, 121>>, <<-54506409, 203>>, <<-54506408, 81>>, <<-54506407, 71>>, <<-54506406, 5>>,
    <<-54506405, 99>>, <<-54506404, 239>>, <<-54506403, 199>>, <<-54506402, 219>>, <<-54506401, 191>>, <<-54506400, 209>>,
    <<-54506399, 229>>, <<-54506398, 1>>, <<-54506397, 197>>, <<-54506396, 231>>, <<-54506395, 165>>, <<-54506394, 101>>,
    <<-54506393, 201>>, <<-54506392, 137>>, <<-54506391, 99>>, <<-54506390, 225>>, <<-35156767, 65>>, <<-35156766, 177>>,
    <<-35156765, 225>>, <<-35156764, 45>>, <<-35156763, 89>>, <<-35156762, 133>>, <<-35156761, 67>>, <<-35156760, 113>>,
    <<-35156759, 145>>, <<-35156758, 119>>, <<-35156757, 197>>, <<-35156756, 213>>, <<-35156755, 115>>, <<-35156754, 151>>,
    <<-35156753, 53>>, <<-35156752, 109>>, <<-35156751, 163>>, <<-35156750, 201>>, <<-35156749, 167>>, <<-35156748, 27>>,
    <<-35156747, 145>>, <<-35156746, 27>>, <<-35156745, 237>>, <<-35156744, 221>>, <<-35156743, 113>>, <<-35156742, 13>>,
    <<-35156741, 107>>, <<-35156740, 95>>, <<-35156739, 171>>, <<-35156738, 137>>, <<-35156737, 187>>, <<-35156736, 189>>,
    <<-35156735, 27>>, <<-35156734, 151>>, <<-35156733, 59>>, <<-35156732, 101>>, <<-35156731, 33>>, <<-35156730, 187>>,
    <<-35156729, 133>>, <<-35156728, 45>>, <<-35156727, 229>>, <<-15807104, 121>>, <<-15807103, 217>>, <<-15807102, 155>>,
    <<-15807101, 33>>, <<-15807100, 17>>, <<-15807099, 65>>, <<-15807098, 111>>, <<-15807097, 85>>, <<-15807096, 93>>,
    <<-15807095, 213>>, <<-15807094, 95>>, <<-15807093, 111>>, <<-15807092, 125>>, <<-15807091, 221>>, <<-15807090, 43>>,
    <<-15807089, 199>>, <<-15807088, 65>>, <<-15807087, 237>>, <<-15807086, 15>>, <<-15807085, 225>>, <<-15807084, 229>>,
    <<-15807083, 125>>, <<-15807082, 189>>, <<-15807081, 65>>, <<-15807080, 127>>, <<-15807079, 21>>, <<-15807078, 97>>,
    <<-15807077, 51>>, <<-15807076, 215>>, <<-15807075, 25>>, <<-15807074, 197>>, <<-15807073, 197>>, <<-15807072, 117>>,
    <<-15807071, 85>>, <<-15807070, 73>>, <<-15807069, 185>>, <<-15807068, 49>>, <<-15807067, 237>>, <<-15807066, 81>>,
    <<-15807065, 47>>, <<-15807064, 121>>, <<-58048989, 193>>, <<-58048988, 229>>, <<-58048987, 147>>, <<-58048986, 141>>,
    <<-58048985, 105>>, <<-58048984, 45>>, <<-58048983, 97>>, <<-58048982, 115>>, <<-58048981, 15>>, <<-58048980, 111>>,
    <<-58048979, 169>>, <<-58048978, 181>>, <<-58048977, 145>>, <<-58048976, 195>>, <<-58048975, 59>>, <<-58048974, 17>>,
    <<-58048973, 103>>, <<-58048972, 221>>, <<-58048971, 185>>, <<-58048970, 105>>, <<-58048969, 15>>, <<-58048968, 77>>,
    <<-58048967, 219>>, <<-58048966, 225>>, <<-58048965, 191>>, <<-58048964, 161>>, <<-58048963, 197>>, <<-58048962, 227>>,
    <<-58048961, 173>>, <<-58048960, 157>>, <<-58048959, 75>>, <<-58048958, 129>>, <<-58048957, 85>>, <<-58048956, 129>>,
    <<-58048955, 211>>, <<-58048954, 61>>, <<-58048953, 85>>, <<-58048952, 41>>, <<-58048951, 31>>, <<-58048950, 63>>,
    <<-58048949, 59>>, <<-38699326, 181>>, <<-38699325, 41>>, <<-38699324, 155>>, <<-38699323, 197>>, <<-38699322, 23>>,
    <<-38699321, 203>>, <<-38699320, 43>>, <<-38699319, 157>>, <<-38699318, 207>>, <<-38699317, 1>>, <<-38699316, 119>>,
    <<-38699315, 123>>, <<-38699314, 31>>, <<-38699313, 155>>, <<-38699312, 177>>, <<-38699311, 35>>, <<-38699310, 39>>,
    <<-38699309, 177>>, <<-38699308, 171>>, <<-38699307, 211>>, <<-38699306, 133>>, <<-38699305, 197>>, <<-38699304, 231>>,
    <<-38699303, 75>>, <<-38699302, 79>>, <<-38699301, 127>>, <<-38699300, 17>>, <<-38699299, 113>>, <<-38699298, 27>>,
    <<-38699297, 215>>, <<-38699296, 75>>, <<-38699295, 113>>, <<-38699294, 175>>, <<-38699293, 189>>, <<-38699292, 21>>,
    <<-38699291, 233>>, <<-38699290, 189>>, <<-38699289, 147>>, <<-38699288, 159>>, <<-38699287, 95>>, <<-38699286, 163>>,
    <<-19349663, 59>>, <<-19349662, 145>>, <<-19349661, 185>>, <<-19349660, 63>>, <<-19349659, 237>>, <<-19349658, 121>>,
    <<-19349657, 39>>, <<-19349656, 41>>, <<-19349655, 69>>, <<-19349654, 131>>, <<-19349653, 133>>, <<-19349652, 31>>,
    <<-19349651, 235>>, <<-19349650, 209>>, <<-19349649, 227>>, <<-19349648, 223>>, <<-19349647, 103>>, <<-19349646, 185>>,
    <<-19349645, 119>>, <<-19349644, 73>>, <<-19349643, 125>>, <<-19349642, 31>>, <<-19349641, 235>>, <<-19349640, 25>>,
    <<-19349639, 9>>, <<-19349638, 99>>, <<-19349637, 221>>, <<-19349636, 153>>, <<-19349635, 129>>, <<-19349634, 13>>,
    <<-19349633, 233>>, <<-19349632, 5>>, <<-19349631, 125>>, <<-19349630, 21>>, <<-19349629, 149>>, <<-19349628, 47>>,
    <<-19349627, 53>>, <<-19349626, 171>>, <<-19349625, 3>>, <<-19349624, 13>>, <<-19349623, 91>>, <<0, 1>>,
    <<1, 171>>, <<2, 233>>, <<3, 49>>, <<4, 235>>, <<5, 181>>, <<6, 203>>,
    <<7, 207>>, <<8, 139>>, <<9, 45>>, <<10, 189>>, <<11, 23>>, <<12, 65>>,
    <<13, 161>>, <<14, 17>>, <<15, 211>>, <<16, 233>>, <<17, 7>>, <<18, 31>>,
    <<19, 185>>, <<20, 109>>, <<21, 133>>, <<22, 117>>, <<23, 191>>, <<24, 51>>,
    <<25, 115>>, <<26, 141>>, <<27, 183>>, <<28, 13>>, <<29, 159>>, <<30, 165>>,
    <<31, 149>>, <<32, 65>>, <<33, 29>>, <<34, 199>>, <<35, 41>>, <<36, 51>>,
    <<37, 149>>, <<38, 165>>, <<39, 229>>, <<40, 31>>, <<19349663, 181>>, <<19349664, 119>>,
    <<19349665, 181>>, <<19349666, 157>>, <<19349667, 177>>, <<19349668, 209>>, <<19349669, 173>>, <<19349670, 31>>,
    <<19349671, 211>>, <<19349672, 51>>, <<19349673, 23>>, <<19349674, 137>>, <<19349675, 61>>, <<19349676, 121>>,
    <<19349677, 79>>, <<19349678, 205>>, <<19349679, 141>>, <<19349680, 213>>, <<19349681, 83>>, <<19349682, 27>>,
    <<19349683, 75>>, <<19349684, 221>>, <<19349685, 97>>, <<19349686, 107>>, <<19349687, 79>>, <<19349688, 227>>,
    <<19349689, 159>>, <<19349690, 183>>, <<19349691, 35>>, <<19349692, 25>>, <<19349693, 103>>, <<19349694, 45>>,
    <<19349695, 61>>, <<19349696, 185>>, <<19349697, 97>>, <<19349698, 37>>, <<19349699, 203>>, <<19349700, 1>>,
    <<19349701, 67>>, <<19349702, 119>>, <<19349703, 201>>, <<38699326, 59>>, <<38699327, 151>>, <<38699328, 211>>,
    <<38699329, 93>>, <<38699330, 183>>, <<38699331, 137>>, <<38699332, 17>>, <<38699333, 75>>, <<38699334, 123>>,
    <<38699335, 17>>, <<38699336, 211>>, <<38699337, 139>>, <<38699338, 7>>, <<38699339, 11>>, <<38699340, 61>>,
    <<38699341, 191>>, <<38699342, 195>>, <<38699343, 227>>, <<38699344, 181>>, <<38699345, 221>>, <<38699346, 209>>,
    <<38699347, 19>>, <<38699348, 143>>, <<38699349, 69>>, <<38699350, 105>>, <<38699351, 17>>, <<38699352, 123>>,
    <<38699353, 213>>, <<38699354, 223>>, <<38699355, 33>>, <<38699356, 111>>, <<38699357, 171>>, <<38699358, 203>>,
    <<38699359, 141>>, <<38699360, 31>>, <<38699361, 85>>, <<38699362, 31>>, <<38699363, 111>>, <<38699364, 49>>,
    <<38699365, 43>>, <<38699366, 21>>, <<58048989, 47>>, <<58048990, 141>>, <<58048991, 195>>, <<58048992, 99>>,
    <<58048993, 19>>, <<58048994, 103>>, <<58048995, 229>>, <<58048996, 231>>, <<58048997, 135>>, <<58048998, 1>>,
    <<58048999, 123>>, <<58049000, 71>>, <<58049001, 127>>, <<58049002, 231>>, <<58049003, 53>>, <<58049004, 229>>,
    <<58049005, 31>>, <<58049006, 131>>, <<58049007, 61>>, <<58049008, 37>>, <<58049009, 191>>, <<58049010, 91>>,
    <<58049011, 77>>, <<58049012, 95>>, <<58049013, 199>>, <<58049014, 169>>, <<58049015, 73>>, <<58049016, 175>>,
    <<58049017, 129>>, <<58049018, 121>>, <<58049019, 95>>, <<58049020, 159>>, <<58049021, 39>>, <<58049022, 223>>,
    <<58049023, 215>>, <<58049024, 11>>, <<58049025, 203>>, <<58049026, 55>>, <<58049027, 131>>, <<58049028, 213>>,
    <<58049029, 87>>, <<15807104, 119>>, <<15807105, 195>>, <<15807106, 49>>, <<15807107, 147>>, <<15807108, 19>>,
    <<15807109, 79>>, <<15807110, 149>>, <<15807111, 69>>, <<15807112, 123>>, <<15807113, 221>>, <<15807114, 157>>,
    <<15807115, 53>>, <<15807116, 219>>, <<15807117, 79>>, <<15807118, 185>>, <<15807119, 63>>, <<15807120, 13>>,
    <<15807121, 113>>, <<15807122, 1>>, <<15807123, 35>>, <<15807124, 49>>, <<15807125, 169>>, <<15807126, 5>>,
    <<15807127, 103>>, <<15807128, 195>>, <<15807129, 115>>, <<15807130, 113>>, <<15807131, 41>>, <<15807132, 73>>,
    <<15807133, 151>>, <<15807134, 49>>, <<15807135, 183>>, <<15807136, 215>>, <<15807137, 19>>, <<15807138, 229>>,
    <<15807139, 119>>, <<15807140, 161>>, <<15807141, 93>>, <<15807142, 27>>, <<15807143, 145>>, <<15807144, 143>>,
    <<35156767, 175>>, <<35156768, 117>>, <<35156769, 55>>, <<35156770, 213>>, <<35156771, 205>>, <<35156772, 153>>,
    <<35156773, 37>>, <<35156774, 25>>, <<35156775, 165>>, <<35156776, 95>>, <<35156777, 205>>, <<35156778, 95>>,
    <<35156779, 21>>, <<35156780, 15>>, <<35156781, 213>>, <<35156782, 27>>, <<35156783, 3>>, <<35156784, 173>>,
    <<35156785, 159>>, <<35156786, 159>>, <<35156787, 5>>, <<35156788, 199>>, <<35156789, 77>>, <<35156790, 133>>,
    <<35156791, 195>>, <<35156792, 137>>, <<35156793, 115>>, <<35156794, 189>>, <<35156795, 29>>, <<35156796, 201>>,
    <<35156797, 175>>, <<35156798, 31>>, <<35156799, 29>>, <<35156800, 25>>, <<35156801, 73>>, <<35156802, 17>>,
    <<35156803, 223>>, <<35156804, 155>>, <<35156805, 121>>, <<35156806, 215>>, <<35156807, 133>>, <<54506430, 39>>,
    <<54506431, 63>>, <<54506432, 101>>, <<54506433, 41>>, <<54506434, 201>>, <<54506435, 155>>, <<54506436, 99>>,
    <<54506437, 63>>, <<54506438, 225>>, <<54506439, 111>>, <<54506440, 143>>, <<54506441, 203>>, <<54506442, 213>>,
    <<54506443, 157>>, <<54506444, 217>>, <<54506445, 149>>, <<54506446, 15>>, <<54506447, 117>>, <<54506448, 83>>,
    <<54506449, 175>>, <<54506450, 23>>, <<54506451, 35>>, <<54506452, 57>>, <<54506453, 231>>, <<54506454, 13>>,
    <<54506455, 221>>, <<54506456, 109>>, <<54506457, 93>>, <<54506458, 225>>, <<54506459, 89>>, <<54506460, 37>>,
    <<54506461, 17>>, <<54506462, 131>>, <<54506463, 49>>, <<54506464, 27>>, <<54506465, 125>>, <<54506466, 155>>,
    <<54506467, 151>>, <<54506468, 131>>, <<54506469, 137>>, <<54506470, 31>>, <<73856093, 39>>, <<73856094, 89>>,
    <<73856095, 93>>, <<73856096, 191>>, <<73856097, 219>>, <<73856098, 217>>, <<73856099, 55>>, <<73856100, 227>>,
    <<73856101, 177>>, <<73856102, 193>>, <<73856103, 83>>, <<73856104, 191>>, <<73856105, 15>>, <<73856106, 101>>,
    <<73856107, 15>>, <<73856108, 85>>, <<73856109, 149>>, <<73856110, 193>>, <<73856111, 115>>, <<73856112, 223>>,
    <<73856113, 69>>, <<73856114, 103>>, <<73856115, 225>>, <<73856116, 137>>, <<73856117, 13>>, <<73856118, 131>>,
    <<73856119, 167>>, <<73856120, 47>>, <<73856121, 219>>, <<73856122, 89>>, <<73856123, 7>>, <<73856124, 95>>,
    <<73856125, 191>>, <<73856126, 57>>, <<73856127, 197>>, <<73856128, 181>>, <<73856129, 85>>, <<73856130, 3>>,
    <<73856131, 217>>, <<73856132, 21>>, <<73856133, 189>>, <<93205756, 111>>, <<93205757, 227>>, <<93205758, 13>>,
    <<93205759, 41>>, <<93205760, 31>>, <<93205761, 93>>, <<93205762, 201>>, <<93205763, 133>>, <<93205764, 65>>,
    <<93205765, 7>>, <<93205766, 99>>, <<93205767, 205>>, <<93205768, 159>>, <<93205769, 81>>, <<93205770, 227>>,
    <<93205771, 137>>, <<93205772, 127>>, <<93205773, 139>>, <<93205774, 227>>, <<93205775, 145>>, <<93205776, 205>>,
    <<93205777, 177>>, <<93205778, 15>>, <<93205779, 133>>, <<93205780, 27>>, <<93205781, 5>>, <<93205782, 191>>,
    <<93205783, 189>>, <<93205784, 111>>, <<93205785, 163>>, <<93205786, 169>>, <<93205787, 45>>, <<93205788, 171>>,
    <<93205789, 93>>, <<93205790, 77>>, <<93205791, 121>>, <<93205792, 73>>, <<93205793, 183>>, <<93205794, 125>>,
    <<93205795, 223>>, <<93205796, 155>>, <<112555419, 81>>, <<112555420, 157>>, <<112555421, 51>>, <<112555422, 99>>,
    <<112555423, 123>>, <<112555424, 239>>, <<112555425, 239>>, <<112555426, 65>>, <<112555427, 205>>, <<112555428, 71>>,
    <<112555429, 161>>, <<112555430, 27>>, <<112555431, 197>>, <<112555432, 211>>, <<112555433, 71>>, <<112555434, 125>>,
    <<112555435, 99>>, <<112555436, 27>>, <<112555437, 169>>, <<112555438, 227>>, <<112555439, 151>>, <<112555440, 173>>,
    <<112555441, 83>>, <<112555442, 189>>, <<112555443, 123>>, <<112555444, 223>>, <<112555445, 143>>, <<112555446, 21>>,
    <<112555447, 63>>, <<112555448, 97>>, <<112555449, 197>>, <<112555450, 231>>, <<112555451, 99>>, <<112555452, 239>>,
    <<112555453, 125>>, <<112555454, 203>>, <<112555455, 35>>, <<112555456, 39>>, <<112555457, 73>>, <<112555458, 149>>,
    <<112555459, 49>>, <<131905082, 131>>, <<131905083, 189>>, <<131905084, 41>>, <<131905085, 113>>, <<131905086, 213>>,
    <<131905087, 25>>, <<131905088, 25>>, <<131905089, 57>>, <<131905090, 59>>, <<131905091, 113>>, <<131905092, 55>>,
    <<131905093, 65>>, <<131905094, 21>>, <<131905095, 171>>, <<131905096, 13>>, <<131905097, 221>>, <<131905098, 19>>,
    <<131905099, 87>>, <<131905100, 195>>, <<131905101, 157>>, <<131905102, 15>>, <<131905103, 61>>, <<131905104, 189>>,
    <<131905105, 109>>, <<131905106, 161>>, <<131905107, 123>>, <<131905108, 85>>, <<131905109, 7>>, <<131905110, 27>>,
    <<131905111, 179>>, <<131905112, 235>>, <<131905113, 199>>, <<131905114, 227>>, <<131905115, 161>>, <<131905116, 27>>,
    <<131905117, 109>>, <<131905118, 107>>, <<131905119, 143>>, <<131905120, 11>>, <<131905121, 3>>, <<131905122, 115>>,
    <<89663197, 215>>, <<89663198, 167>>, <<89663199, 69>>, <<89663200, 57>>, <<89663201, 41>>, <<89663202, 49>>,
    <<89663203, 213>>, <<89663204, 33>>, <<89663205, 7>>, <<89663206, 143>>, <<89663207, 121>>, <<89663208, 203>>,
    <<89663209, 173>>, <<89663210, 167>>, <<89663211, 55>>, <<89663212, 9>>, <<89663213, 235>>, <<89663214, 171>>,
    <<89663215, 115>>, <<89663216, 193>>, <<89663217, 89>>, <<89663218, 167>>, <<89663219, 19>>, <<89663220, 127>>,
    <<89663221, 183>>, <<89663222, 53>>, <<89663223, 87>>, <<89663224, 227>>, <<89663225, 1>>, <<89663226, 139>>,
    <<89663227, 225>>, <<89663228, 103>>, <<89663229, 77>>, <<89663230, 121>>, <<89663231, 7>>, <<89663232, 75>>,
    <<89663233, 217>>, <<89663234, 207>>, <<89663235, 157>>, <<89663236, 145>>, <<89663237, 105>>, <<109012860, 197>>,
    <<109012861, 163>>, <<109012862, 189>>, <<109012863, 191>>, <<109012864, 167>>, <<109012865, 189>>, <<109012866, 109>>,
    <<109012867, 233>>, <<109012868, 183>>, <<109012869, 179>>, <<109012870, 59>>, <<109012871, 109>>, <<109012872, 169>>,
    <<109012873, 141>>, <<109012874, 207>>, <<109012875, 45>>, <<109012876, 87>>, <<109012877, 217>>, <<109012878, 27>>,
    <<109012879, 179>>, <<109012880, 147>>, <<109012881, 211>>, <<109012882, 23>>, <<109012883, 47>>, <<109012884, 197>>,
    <<109012885, 191>>, <<109012886, 39>>, <<109012887, 221>>, <<109012888, 163>>, <<109012889, 133>>, <<109012890, 5>>,
    <<109012891, 39>>, <<109012892, 225>>, <<109012893, 163>>, <<109012894, 151>>, <<109012895, 59>>, <<109012896, 103>>,
    <<109012897, 215>>, <<109012898, 53>>, <<109012899, 67>>, <<109012900, 205>>, <<128362523, 229>>, <<128362524, 47>>,
    <<128362525, 103>>, <<128362526, 99>>, <<128362527, 153>>, <<128362528, 67>>, <<128362529, 73>>, <<128362530, 129>>,
    <<128362531, 77>>, <<128362532, 149>>, <<128362533, 103>>, <<128362534, 9>>, <<128362535, 7>>, <<128362536, 163>>,
    <<128362537, 5>>, <<128362538, 33>>, <<128362539, 221>>, <<128362540, 65>>, <<128362541, 77>>, <<128362542, 139>>,
    <<128362543, 71>>, <<128362544, 201>>, <<128362545, 211>>, <<128362546, 19>>, <<128362547, 223>>, <<128362548, 73>>,
    <<128362549, 189>>, <<128362550, 107>>, <<128362551, 45>>, <<128362552, 23>>, <<128362553, 221>>, <<128362554, 219>>,
    <<128362555, 219>>, <<128362556, 115>>, <<128362557, 39>>, <<128362558, 39>>, <<128362559, 51>>, <<128362560, 59>>,
    <<128362561, 169>>, <<128362562, 237>>, <<128362563, 81>>, <<147712186, 209>>, <<147712187, 191>>, <<147712188, 57>>,
    <<147712189, 219>>, <<147712190, 221>>, <<147712191, 161>>, <<147712192, 19>>, <<147712193, 3>>, <<147712194, 101>>,
    <<147712195, 45>>, <<147712196, 31>>, <<147712197, 31>>, <<147712198, 237>>, <<147712199, 103>>, <<147712200, 129>>,
    <<147712201, 109>>, <<147712202, 179>>, <<147712203, 109>>, <<147712204, 69>>, <<147712205, 9>>, <<147712206, 23>>,
    <<147712207, 153>>, <<147712208, 223>>, <<147712209, 147>>, <<147712210, 205>>, <<147712211, 169>>, <<147712212, 155>>,
    <<147712213, 199>>, <<147712214, 39>>, <<147712215, 205>>, <<147712216, 137>>, <<147712217, 115>>, <<147712218, 101>>,
    <<147712219, 127>>, <<147712220, 161>>, <<147712221, 133>>, <<147712222, 187>>, <<147712223, 71>>, <<147712224, 233>>,
    <<147712225, 205>>, <<147712226, 213>>, <<167061849, 183>>, <<167061850, 187>>, <<167061851, 105>>, <<167061852, 93>>,
    <<167061853, 15>>, <<167061854, 197>>, <<167061855, 37>>, <<167061856, 45>>, <<167061857, 189>>, <<167061858, 13>>,
    <<167061859, 1>>, <<167061860, 21>>, <<167061861, 47>>, <<167061862, 119>>, <<167061863, 131>>, <<167061864, 197>>,
    <<167061865, 183>>, <<167061866, 171>>, <<167061867, 163>>, <<167061868, 199>>, <<167061869, 133>>, <<167061870, 137>>,
    <<167061871, 101>>, <<167061872, 67>>, <<167061873, 135>>, <<167061874, 9>>, <<167061875, 37>>, <<167061876, 205>>,
    <<167061877, 125>>, <<167061878, 185>>, <<167061879, 161>>, <<167061880, 105>>, <<167061881, 39>>, <<167061882, 75>>,
    <<167061883, 221>>, <<167061884, 33>>, <<167061885, 103>>, <<167061886, 167>>, <<167061887, 159>>, <<167061888, 115>>,
    <<167061889, 213>>, <<186411512, 219>>, <<186411513, 37>>, <<186411514, 225>>, <<186411515, 157>>, <<186411516, 117>>,
    <<186411517, 53>>, <<186411518, 51>>, <<186411519, 149>>, <<186411520, 195>>, <<186411521, 99>>, <<186411522, 157>>,
    <<186411523, 185>>, <<186411524, 141>>, <<186411525, 177>>, <<186411526, 21>>, <<186411527, 21>>, <<186411528, 173>>,
    <<186411529, 239>>, <<186411530, 99>>, <<186411531, 39>>, <<186411532, 213>>, <<186411533, 83>>, <<186411534, 83>>,
    <<186411535, 57>>, <<186411536, 113>>, <<186411537, 123>>, <<186411538, 161>>, <<186411539, 119>>, <<186411540, 135>>,
    <<186411541, 83>>, <<186411542, 153>>, <<186411543, 141>>, <<186411544, 193>>, <<186411545, 119>>, <<186411546, 209>>,
    <<186411547, 141>>, <<186411548, 199>>, <<186411549, 183>>, <<186411550, 43>>, <<186411551, 53>>, <<186411552, 165>>,
    <<205761175, 139>>, <<205761176, 209>>, <<205761177, 143>>, <<205761178, 207>>, <<205761179, 197>>, <<205761180, 205>>,
    <<205761181, 169>>, <<205761182, 73>>, <<205761183, 111>>, <<205761184, 157>>, <<205761185, 229>>, <<205761186, 87>>,
    <<205761187, 103>>, <<205761188, 17>>, <<205761189, 163>>, <<205761190, 221>>, <<205761191, 59>>, <<205761192, 35>>,
    <<205761193, 145>>, <<205761194, 233>>, <<205761195, 237>>, <<205761196, 17>>, <<205761197, 65>>, <<205761198, 73>>,
    <<205761199, 13>>, <<205761200, 191>>, <<205761201, 125>>, <<205761202, 121>>, <<205761203, 167>>, <<205761204, 239>>,
    <<205761205, 185>>, <<205761206, 51>>, <<205761207, 165>>, <<205761208, 9>>, <<205761209, 41>>, <<205761210, 3>>,
    <<205761211, 61>>, <<205761212, 57>>, <<205761213, 21>>, <<205761214, 97>>, <<205761215, 59>>, <<163519290, 187>>,
    <<163519291, 87>>, <<163519292, 141>>, <<163519293, 5>>, <<163519294, 231>>, <<163519295, 77>>, <<163519296, 217>>,
    <<163519297, 149>>, <<163519298, 43>>, <<163519299, 75>>, <<163519300, 159>>, <<163519301, 199>>, <<163519302, 107>>,
    <<163519303, 135>>, <<163519304, 25>>, <<163519305, 177>>, <<163519306, 161>>, <<163519307, 169>>, <<163519308, 21>>,
    <<163519309, 163>>, <<163519310, 121>>, <<163519311, 123>>, <<163519312, 229>>, <<163519313, 125>>, <<163519314, 95>>,
    <<163519315, 115>>, <<163519316, 131>>, <<163519317, 49>>, <<163519318, 25>>, <<163519319, 207>>, <<163519320, 73>>,
    <<163519321, 41>>, <<163519322, 83>>, <<163519323, 71>>, <<163519324, 199>>, <<163519325, 141>>, <<163519326, 111>>,
    <<163519327, 177>>, <<163519328, 41>>, <<163519329, 189>>, <<163519330, 101>>, <<182868953, 115>>, <<182868954, 61>>,
    <<182868955, 135>>, <<182868956, 217>>, <<182868957, 113>>, <<182868958, 113>>, <<182868959, 223>>, <<182868960, 17>>,
    <<182868961, 15>>, <<182868962, 181>>, <<182868963, 63>>, <<182868964, 43>>, <<182868965, 85>>, <<182868966, 123>>,
    <<182868967, 101>>, <<182868968, 111>>, <<182868969, 233>>, <<182868970, 13>>, <<182868971, 41>>, <<182868972, 25>>,
    <<182868973, 85>>, <<182868974, 35>>, <<182868975, 149>>, <<182868976, 7>>, <<182868977, 155>>, <<182868978, 9>>,
    <<182868979, 209>>, <<182868980, 157>>, <<182868981, 121>>, <<182868982, 153>>, <<182868983, 215>>, <<182868984, 71>>,
    <<182868985, 101>>, <<182868986, 57>>, <<182868987, 5>>, <<182868988, 201>>, <<182868989, 103>>, <<182868990, 21>>,
    <<182868991, 85>>, <<182868992, 25>>, <<182868993, 183>>, <<202218616, 231>>, <<202218617, 35>>, <<202218618, 97>>,
    <<202218619, 115>>, <<202218620, 7>>, <<202218621, 93>>, <<202218622, 89>>, <<202218623, 207>>, <<202218624, 99>>,
    <<202218625, 37>>, <<202218626, 227>>, <<202218627, 109>>, <<202218628, 57>>, <<202218629, 87>>, <<202218630, 123>>,
    <<202218631, 41>>, <<202218632, 73>>, <<202218633, 225>>, <<202218634, 217>>, <<202218635, 115>>, <<202218636, 165>>,
    <<202218637, 97>>, <<202218638, 213>>, <<202218639, 185>>, <<202218640, 181>>, <<202218641, 71>>, <<202218642, 93>>,
    <<202218643, 87>>, <<202218644, 169>>, <<202218645, 163>>, <<202218646, 151>>, <<202218647, 57>>, <<202218648, 45>>,
    <<202218649, 45>>, <<202218650, 209>>, <<202218651, 73>>, <<202218652, 141>>, <<202218653, 9>>, <<202218654, 143>>,
    <<202218655, 217>>, <<202218656, 5>>, <<221568279, 105>>, <<221568280, 67>>, <<221568281, 79>>, <<221568282, 117>>,
    <<221568283, 121>>, <<221568284, 221>>, <<221568285, 101>>, <<221568286, 229>>, <<221568287, 19>>, <<221568288, 205>>,
    <<221568289, 215>>, <<221568290, 239>>, <<221568291, 189>>, <<221568292, 33>>, <<221568293, 13>>, <<221568294, 121>>,
    <<221568295, 127>>, <<221568296, 123>>, <<221568297, 89>>, <<221568298, 61>>, <<221568299, 25>>, <<221568300, 93>>,
    <<221568301, 15>>, <<221568302, 61>>, <<221568303, 137>>, <<221568304, 201>>, <<221568305, 167>>, <<221568306, 235>>,
    <<221568307, 27>>, <<221568308, 207>>, <<221568309, 101>>, <<221568310, 73>>, <<221568311, 141>>, <<221568312, 175>>,
    <<221568313, 133>>, <<221568314, 163>>, <<221568315, 123>>, <<221568316, 163>>, <<221568317, 217>>, <<221568318, 239>>,
    <<221568319, 145>>, <<240917942, 69>>, <<240917943, 173>>, <<240917944, 7>>, <<240917945, 15>>, <<240917946, 201>>,
    <<240917947, 41>>, <<240917948, 239>>, <<240917949, 79>>, <<240917950, 115>>, <<240917951, 191>>, <<240917952, 175>>,
    <<240917953, 235>>, <<240917954, 27>>, <<240917955, 235>>, <<240917956, 175>>, <<240917957, 201>>, <<240917958, 27>>,
    <<240917959, 113>>, <<240917960, 197>>, <<240917961, 103>>, <<240917962, 119>>, <<240917963, 111>>, <<240917964, 127>>,
    <<240917965, 159>>, <<240917966, 159>>, <<240917967, 183>>, <<240917968, 235>>, <<240917969, 171>>, <<240917970, 169>>,
    <<240917971, 213>>, <<240917972, 235>>, <<240917973, 137>>, <<240917974, 181>>, <<240917975, 117>>, <<240917976, 25>>,
    <<240917977, 47>>, <<240917978, 107>>, <<240917979, 111>>, <<240917980, 145>>, <<240917981, 67>>, <<240917982, 119>>,
    <<260267605, 107>>, <<260267606, 149>>, <<260267607, 49>>, <<260267608, 125>>, <<260267609, 35>>, <<260267610, 95>>,
    <<260267611, 137>>, <<260267612, 65>>, <<260267613, 55>>, <<260267614, 205>>, <<260267615, 215>>, <<260267616, 201>>,
    <<260267617, 237>>, <<260267618, 239>>, <<260267619, 117>>, <<260267620, 237>>, <<260267621, 131>>, <<260267622, 17>>,
    <<260267623, 45>>, <<260267624, 73>>, <<260267625, 81>>, <<260267626, 127>>, <<260267627, 191>>, <<260267628, 175>>,
    <<260267629, 203>>, <<260267630, 47>>, <<260267631, 89>>, <<260267632, 129>>, <<260267633, 171>>, <<260267634, 29>>,
    <<260267635, 195>>, <<260267636, 31>>, <<260267637, 13>>, <<260267638, 235>>, <<260267639, 65>>, <<260267640, 99>>,
    <<260267641, 41>>, <<260267642, 65>>, <<260267643, 19>>, <<260267644, 73>>, <<260267645, 11>>, <<279617268, 49>>,
    <<279617269, 223>>, <<279617270, 207>>, <<279617271, 155>>, <<279617272, 73>>, <<279617273, 183>>, <<279617274, 51>>,
    <<279617275, 93>>, <<279617276, 25>>, <<279617277, 175>>, <<279617278, 77>>, <<279617279, 153>>, <<279617280, 127>>,
    <<279617281, 121>>, <<279617282, 169>>, <<279617283, 71>>, <<279617284, 93>>, <<279617285, 13>>, <<279617286, 107>>,
    <<279617287, 23>>, <<279617288, 109>>, <<279617289, 153>>, <<279617290, 17>>, <<279617291, 83>>, <<279617292, 19>>,
    <<279617293, 107>>, <<279617294, 119>>, <<279617295, 201>>, <<279617296, 61>>, <<279617297, 235>>, <<279617298, 223>>,
    <<279617299, 31>>, <<279617300, 219>>, <<279617301, 179>>, <<279617302, 157>>, <<279617303, 221>>, <<279617304, 63>>,
    <<279617305, 213>>, <<279617306, 47>>, <<279617307, 7>>, <<279617308, 205>>, <<237375383, 171>>, <<237375384, 81>>,
    <<237375385, 183>>, <<237375386, 217>>, <<237375387, 99>>, <<237375388, 113>>, <<237375389, 149>>, <<237375390, 123>>,
    <<237375391, 105>>, <<237375392, 43>>, <<237375393, 229>>, <<237375394, 203>>, <<237375395, 127>>, <<237375396, 101>>,
    <<237375397, 17>>, <<237375398, 133>>, <<237375399, 131>>, <<237375400, 9>>, <<237375401, 173>>, <<237375402, 195>>,
    <<237375403, 199>>, <<237375404, 123>>, <<237375405, 129>>, <<237375406, 71>>, <<237375407, 97>>, <<237375408, 19>>,
    <<237375409, 151>>, <<237375410, 197>>, <<237375411, 117>>, <<237375412, 79>>, <<237375413, 5>>, <<237375414, 87>>,
    <<237375415, 1>>, <<237375416, 225>>, <<237375417, 121>>, <<237375418, 221>>, <<237375419, 169>>, <<237375420, 145>>,
    <<237375421, 219>>, <<237375422, 17>>, <<237375423, 53>>, <<256725046, 149>>, <<256725047, 21>>, <<256725048, 49>>,
    <<256725049, 99>>, <<256725050, 97>>, <<256725051, 121>>, <<256725052, 91>>, <<256725053, 197>>, <<256725054, 187>>,
    <<256725055, 51>>, <<256725056, 119>>, <<256725057, 107>>, <<256725058, 149>>, <<256725059, 49>>, <<256725060, 97>>,
    <<256725061, 199>>, <<256725062, 221>>, <<256725063, 155>>, <<256725064, 149>>, <<256725065, 143>>, <<256725066, 21>>,
    <<256725067, 121>>, <<256725068, 191>>, <<256725069, 199>>, <<256725070, 33>>, <<256725071, 219>>, <<256725072, 35>>,
    <<256725073, 213>>, <<256725074, 41>>, <<256725075, 109>>, <<256725076, 189>>, <<256725077, 153>>, <<256725078, 209>>,
    <<256725079, 39>>, <<256725080, 211>>, <<256725081, 133>>, <<256725082, 213>>, <<256725083, 131>>, <<256725084, 49>>,
    <<256725085, 209>>, <<256725086, 211>>, <<276074709, 195>>, <<276074710, 135>>, <<276074711, 9>>, <<276074712, 171>>,
    <<276074713, 171>>, <<276074714, 51>>, <<276074715, 93>>, <<276074716, 107>>, <<276074717, 105>>, <<276074718, 189>>,
    <<276074719, 75>>, <<276074720, 199>>, <<276074721, 121>>, <<276074722, 177>>, <<276074723, 69>>, <<276074724, 193>>,
    <<276074725, 101>>, <<276074726, 23>>, <<276074727, 233>>, <<276074728, 171>>, <<276074729, 133>>, <<276074730, 41>>,
    <<276074731, 135>>, <<276074732, 229>>, <<276074733, 159>>, <<276074734, 57>>, <<276074735, 59>>, <<276074736, 57>>,
    <<276074737, 185>>, <<276074738, 233>>, <<276074739, 93>>, <<276074740, 147>>, <<276074741, 67>>, <<276074742, 199>>,
    <<276074743, 195>>, <<276074744, 9>>, <<276074745, 147>>, <<276074746, 223>>, <<276074747, 71>>, <<276074748, 141>>,
    <<276074749, 113>>, <<295424372, 187>>, <<295424373, 191>>, <<295424374, 199>>, <<295424375, 87>>, <<295424376, 3>>,
    <<295424377, 145>>, <<295424378, 25>>, <<295424379, 7>>, <<295424380, 19>>, <<295424381, 1>>, <<295424382, 29>>,
    <<295424383, 201>>, <<295424384, 201>>, <<295424385, 113>>, <<295424386, 131>>, <<295424387, 179>>, <<295424388, 101>>,
    <<295424389, 203>>, <<295424390, 117>>, <<295424391, 149>>, <<295424392, 63>>, <<295424393, 51>>, <<295424394, 139>>,
    <<295424395, 51>>, <<295424396, 211>>, <<295424397, 201>>, <<295424398, 111>>, <<295424399, 151>>, <<295424400, 153>>,
    <<295424401, 239>>, <<295424402, 61>>, <<295424403, 175>>, <<295424404, 27>>, <<295424405, 147>>, <<295424406, 161>>,
    <<295424407, 127>>, <<295424408, 11>>, <<295424409, 183>>, <<295424410, 151>>, <<295424411, 117>>, <<295424412, 183>>,
    <<314774035, 119>>, <<314774036, 49>>, <<314774037, 151>>, <<314774038, 233>>, <<314774039, 37>>, <<314774040, 43>>,
    <<314774041, 223>>, <<314774042, 211>>, <<314774043, 25>>, <<314774044, 89>>, <<314774045, 55>>, <<314774046, 107>>,
    <<314774047, 137>>, <<314774048, 233>>, <<314774049, 215>>, <<314774050, 65>>, <<314774051, 237>>, <<314774052, 221>>,
    <<314774053, 41>>, <<314774054, 155>>, <<314774055, 213>>, <<314774056, 99>>, <<314774057, 223>>, <<314774058, 85>>,
    <<314774059, 205>>, <<314774060, 55>>, <<314774061, 223>>, <<314774062, 87>>, <<314774063, 205>>, <<314774064, 133>>,
    <<314774065, 217>>, <<314774066, 95>>, <<314774067, 217>>, <<314774068, 135>>, <<314774069, 111>>, <<314774070, 237>>,
    <<314774071, 89>>, <<314774072, 149>>, <<314774073, 129>>, <<314774074, 109>>, <<314774075, 59>>, <<334123698, 195>>,
    <<334123699, 143>>, <<334123700, 91>>, <<334123701, 93>>, <<334123702, 123>>, <<334123703, 11>>, <<334123704, 229>>,
    <<334123705, 49>>, <<334123706, 219>>, <<334123707, 1>>, <<334123708, 31>>, <<334123709, 1>>, <<334123710, 35>>,
    <<334123711, 145>>, <<334123712, 1>>, <<334123713, 95>>, <<334123714, 113>>, <<334123715, 177>>, <<334123716, 199>>,
    <<334123717, 149>>, <<334123718, 9>>, <<334123719, 5>>, <<334123720, 105>>, <<334123721, 31>>, <<334123722, 81>>,
    <<334123723, 121>>, <<334123724, 217>>, <<334123725, 51>>, <<334123726, 73>>, <<334123727, 223>>, <<334123728, 51>>,
    <<334123729, 29>>, <<334123730, 61>>, <<334123731, 1>>, <<334123732, 221>>, <<334123733, 165>>, <<334123734, 113>>,
    <<334123735, 161>>, <<334123736, 31>>, <<334123737, 123>>, <<334123738, 173>>, <<353473361, 109>>, <<353473362, 33>>,
    <<353473363, 41>>, <<353473364, 185>>, <<353473365, 193>>, <<353473366, 91>>, <<353473367, 133>>, <<353473368, 187>>,
    <<353473369, 155>>, <<353473370, 35>>, <<353473371, 205>>, <<353473372, 119>>, <<353473373, 9>>, <<353473374, 147>>,
    <<353473375, 167>>, <<353473376, 19>>, <<353473377, 133>>, <<353473378, 127>>, <<353473379, 179>>, <<353473380, 239>>,
    <<353473381, 95>>, <<353473382, 69>>, <<353473383, 53>>, <<353473384, 13>>, <<353473385, 131>>, <<353473386, 171>>,
    <<353473387, 41>>, <<353473388, 231>>, <<353473389, 149>>, <<353473390, 131>>, <<353473391, 155>>, <<353473392, 97>>,
    <<353473393, 77>>, <<353473394, 235>>, <<353473395, 45>>, <<353473396, 165>>, <<353473397, 127>>, <<353473398, 131>>,
    <<353473399, 231>>, <<353473400, 57>>, <<353473401, 17>>, <<311231476, 211>>, <<311231477, 77>>, <<311231478, 187>>,
    <<311231479, 137>>, <<311231480, 95>>, <<311231481, 125>>, <<311231482, 43>>, <<311231483, 47>>, <<311231484, 127>>,
    <<311231485, 55>>, <<311231486, 209>>, <<311231487, 107>>, <<311231488, 17>>, <<311231489, 127>>, <<311231490, 7>>,
    <<311231491, 229>>, <<311231492, 209>>, <<311231493, 51>>, <<311231494, 155>>, <<311231495, 175>>, <<311231496, 143>>,
    <<311231497, 39>>, <<311231498, 59>>, <<311231499, 91>>, <<311231500, 161>>, <<311231501, 181>>, <<311231502, 213>>,
    <<311231503, 133>>, <<311231504, 213>>, <<311231505, 73>>, <<311231506, 225>>, <<311231507, 167>>, <<311231508, 27>>,
    <<311231509, 73>>, <<311231510, 95>>, <<311231511, 161>>, <<311231512, 101>>, <<311231513, 13>>, <<311231514, 47>>,
    <<311231515, 139>>, <<311231516, 181>>, <<330581139, 111>>, <<330581140, 147>>, <<330581141, 71>>, <<330581142, 189>>,
    <<330581143, 33>>, <<330581144, 129>>, <<330581145, 125>>, <<330581146, 215>>, <<330581147, 3>>, <<330581148, 101>>,
    <<330581149, 131>>, <<330581150, 193>>, <<330581151, 53>>, <<330581152, 193>>, <<330581153, 51>>, <<330581154, 213>>,
    <<330581155, 169>>, <<330581156, 95>>, <<330581157, 209>>, <<330581158, 217>>, <<330581159, 171>>, <<330581160, 211>>,
    <<330581161, 69>>, <<330581162, 203>>, <<330581163, 111>>, <<330581164, 95>>, <<330581165, 85>>, <<330581166, 153>>,
    <<330581167, 93>>, <<330581168, 213>>, <<330581169, 227>>, <<330581170, 81>>, <<330581171, 35>>, <<330581172, 59>>,
    <<330581173, 199>>, <<330581174, 77>>, <<330581175, 99>>, <<330581176, 129>>, <<330581177, 235>>, <<330581178, 189>>,
    <<330581179, 47>>, <<349930802, 25>>, <<349930803, 121>>, <<349930804, 213>>, <<349930805, 165>>, <<349930806, 233>>,
    <<349930807, 65>>, <<349930808, 237>>, <<349930809, 163>>, <<349930810, 169>>, <<349930811, 1>>, <<349930812, 57>>,
    <<349930813, 111>>, <<349930814, 173>>, <<349930815, 97>>, <<349930816, 57>>, <<349930817, 39>>, <<349930818, 9>>,
    <<349930819, 73>>, <<349930820, 31>>, <<349930821, 121>>, <<349930822, 73>>, <<349930823, 149>>, <<349930824, 171>>,
    <<349930825, 127>>, <<349930826, 97>>, <<349930827, 61>>, <<349930828, 25>>, <<349930829, 233>>, <<349930830, 99>>,
    <<349930831, 213>>, <<349930832, 81>>, <<349930833, 85>>, <<349930834, 187>>, <<349930835, 49>>, <<349930836, 197>>,
    <<349930837, 179>>, <<349930838, 147>>, <<349930839, 231>>, <<349930840, 235>>, <<349930841, 229>>, <<349930842, 63>>,
    <<369280465, 181>>, <<369280466, 117>>, <<369280467, 235>>, <<369280468, 85>>, <<369280469, 5>>, <<369280470, 229>>,
    <<369280471, 49>>, <<369280472, 73>>, <<369280473, 41>>, <<369280474, 95>>, <<369280475, 167>>, <<369280476, 61>>,
    <<369280477, 81>>, <<369280478, 163>>, <<369280479, 169>>, <<369280480, 127>>, <<369280481, 107>>, <<369280482, 37>>,
    <<369280483, 201>>, <<369280484, 239>>, <<369280485, 57>>, <<369280486, 181>>, <<369280487, 97>>, <<369280488, 87>>,
    <<369280489, 113>>, <<369280490, 235>>, <<369280491, 233>>, <<369280492, 165>>, <<369280493, 185>>, <<369280494, 31>>,
    <<369280495, 101>>, <<369280496, 85>>, <<369280497, 53>>, <<369280498, 195>>, <<369280499, 91>>, <<369280500, 69>>,
    <<369280501, 115>>, <<369280502, 205>>, <<369280503, 99>>, <<369280504, 169>>, <<369280505, 81>>, <<388630128, 63>>,
    <<388630129, 101>>, <<388630130, 73>>, <<388630131, 37>>, <<388630132, 17>>, <<388630133, 101>>, <<388630134, 137>>,
    <<388630135, 219>>, <<388630136, 231>>, <<388630137, 225>>, <<388630138, 201>>, <<388630139, 37>>, <<388630140, 205>>,
    <<388630141, 229>>, <<388630142, 61>>, <<388630143, 217>>, <<388630144, 123>>, <<388630145, 115>>, <<388630146, 57>>,
    <<388630147, 81>>, <<388630148, 235>>, <<388630149, 29>>, <<388630150, 27>>, <<388630151, 109>>, <<388630152, 157>>,
    <<388630153, 191>>, <<388630154, 57>>, <<388630155, 195>>, <<388630156, 111>>, <<388630157, 73>>, <<388630158, 33>>,
    <<388630159, 215>>, <<388630160, 161>>, <<388630161, 157>>, <<388630162, 91>>, <<388630163, 141>>, <<388630164, 1>>,
    <<388630165, 19>>, <<388630166, 35>>, <<388630167, 5>>, <<388630168, 11>>, <<407979791, 209>>, <<407979792, 149>>,
    <<407979793, 129>>, <<407979794, 81>>, <<407979795, 155>>, <<407979796, 117>>, <<407979797, 119>>, <<407979798, 217>>,
    <<407979799, 199>>, <<407979800, 223>>, <<407979801, 221>>, <<407979802, 153>>, <<407979803, 225>>, <<407979804, 195>>,
    <<407979805, 63>>, <<407979806, 29>>, <<407979807, 47>>, <<407979808, 201>>, <<407979809, 45>>, <<407979810, 7>>,
    <<407979811, 115>>, <<407979812, 25>>, <<407979813, 165>>, <<407979814, 45>>, <<407979815, 235>>, <<407979816, 217>>,
    <<407979817, 89>>, <<407979818, 145>>, <<407979819, 11>>, <<407979820, 141>>, <<407979821, 23>>, <<407979822, 237>>,
    <<407979823, 191>>, <<407979824, 11>>, <<407979825, 147>>, <<407979826, 117>>, <<407979827, 145>>, <<407979828, 171>>,
    <<407979829, 61>>, <<407979830, 193>>, <<407979831, 237>>, <<427329454, 125>>, <<427329455, 185>>, <<427329456, 175>>,
    <<427329457, 237>>, <<427329458, 183>>, <<427329459, 231>>, <<427329460, 97>>, <<427329461, 17>>, <<427329462, 239>>,
    <<427329463, 119>>, <<427329464, 65>>, <<427329465, 151>>, <<427329466, 125>>, <<427329467, 193>>, <<427329468, 187>>,
    <<427329469, 77>>, <<427329470, 115>>, <<427329471, 119>>, <<427329472, 201>>, <<427329473, 37>>, <<427329474, 53>>,
    <<427329475, 181>>, <<427329476, 135>>, <<427329477, 77>>, <<427329478, 75>>, <<427329479, 13>>, <<427329480, 67>>,
    <<427329481, 119>>, <<427329482, 223>>, <<427329483, 83>>, <<427329484, 67>>, <<427329485, 105>>, <<427329486, 35>>,
    <<427329487, 215>>, <<427329488, 109>>, <<427329489, 167>>, <<427329490, 147>>, <<427329491, 195>>, <<427329492, 83>>,
    <<427329493, 63>>, <<427329494, 163>>, <<385087569, 21>>, <<385087570, 29>>, <<385087571, 75>>, <<385087572, 87>>,
    <<385087573, 199>>, <<385087574, 143>>, <<385087575, 117>>, <<385087576, 25>>, <<385087577, 7>>, <<385087578, 9>>,
    <<385087579, 227>>, <<385087580, 21>>, <<385087581, 109>>, <<385087582, 31>>, <<385087583, 15>>, <<385087584, 41>>,
    <<385087585, 145>>, <<385087586, 191>>, <<385087587, 235>>, <<385087588, 175>>, <<385087589, 51>>, <<385087590, 195>>,
    <<385087591, 107>>, <<385087592, 143>>, <<385087593, 149>>, <<385087594, 151>>, <<385087595, 187>>, <<385087596, 63>>,
    <<385087597, 93>>, <<385087598, 185>>, <<385087599, 171>>, <<385087600, 169>>, <<385087601, 151>>, <<385087602, 3>>,
    <<385087603, 201>>, <<385087604, 37>>, <<385087605, 169>>, <<385087606, 193>>, <<385087607, 167>>, <<385087608, 169>>,
    <<385087609, 133>>, <<404437232, 31>>, <<404437233, 65>>, <<404437234, 77>>, <<404437235, 7>>, <<404437236, 227>>,
    <<404437237, 205>>, <<404437238, 105>>, <<404437239, 117>>, <<404437240, 203>>, <<404437241, 87>>, <<404437242, 35>>,
    <<404437243, 33>>, <<404437244, 91>>, <<404437245, 109>>, <<404437246, 153>>, <<404437247, 91>>, <<404437248, 99>>,
    <<404437249, 211>>, <<404437250, 5>>, <<404437251, 163>>, <<404437252, 93>>, <<404437253, 129>>, <<404437254, 145>>,
    <<404437255, 183>>, <<404437256, 155>>, <<404437257, 233>>, <<404437258, 223>>, <<404437259, 91>>, <<404437260, 133>>,
    <<404437261, 17>>, <<404437262, 87>>, <<404437263, 25>>, <<404437264, 187>>, <<404437265, 161>>, <<404437266, 31>>,
    <<404437267, 235>>, <<404437268, 225>>, <<404437269, 193>>, <<404437270, 49>>, <<404437271, 225>>, <<404437272, 87>>,
    <<423786895, 97>>, <<423786896, 35>>, <<423786897, 127>>, <<423786898, 203>>, <<423786899, 25>>, <<423786900, 11>>,
    <<423786901, 89>>, <<423786902, 215>>, <<423786903, 153>>, <<423786904, 163>>, <<423786905, 127>>, <<423786906, 203>>,
    <<423786907, 207>>, <<423786908, 219>>, <<423786909, 195>>, <<423786910, 3>>, <<423786911, 119>>, <<423786912, 217>>,
    <<423786913, 77>>, <<423786914, 119>>, <<423786915, 35>>, <<423786916, 107>>, <<423786917, 3>>, <<423786918, 207>>,
    <<423786919, 231>>, <<423786920, 167>>, <<423786921, 157>>, <<423786922, 53>>, <<423786923, 73>>, <<423786924, 19>>,
    <<423786925, 153>>, <<423786926, 19>>, <<423786927, 237>>, <<423786928, 229>>, <<423786929, 105>>, <<423786930, 21>>,
    <<423786931, 201>>, <<423786932, 3>>, <<423786933, 175>>, <<423786934, 81>>, <<423786935, 9>>, <<443136558, 239>>,
    <<443136559, 85>>, <<443136560, 239>>, <<443136561, 157>>, <<443136562, 105>>, <<443136563, 143>>, <<443136564, 11>>,
    <<443136565, 49>>, <<443136566, 237>>, <<443136567, 99>>, <<443136568, 167>>, <<443136569, 11>>, <<443136570, 151>>,
    <<443136571, 239>>, <<443136572, 21>>, <<443136573, 141>>, <<443136574, 147>>, <<443136575, 171>>, <<443136576, 59>>,
    <<443136577, 151>>, <<443136578, 17>>, <<443136579, 1>>, <<443136580, 21>>, <<443136581, 209>>, <<443136582, 165>>,
    <<443136583, 165>>, <<443136584, 235>>, <<443136585, 3>>, <<443136586, 31>>, <<443136587, 89>>, <<443136588, 203>>,
    <<443136589, 35>>, <<443136590, 85>>, <<443136591, 1>>, <<443136592, 161>>, <<443136593, 117>>, <<443136594, 127>>,
    <<443136595, 193>>, <<443136596, 121>>, <<443136597, 137>>, <<443136598, 7>>, <<462486221, 107>>, <<462486222, 239>>,
    <<462486223, 75>>, <<462486224, 99>>, <<462486225, 115>>, <<462486226, 39>>, <<462486227, 177>>, <<462486228, 73>>,
    <<462486229, 11>>, <<462486230, 121>>, <<462486231, 237>>, <<462486232, 199>>, <<462486233, 129>>, <<462486234, 37>>,
    <<462486235, 125>>, <<462486236, 185>>, <<462486237, 195>>, <<462486238, 7>>, <<462486239, 37>>, <<462486240, 135>>,
    <<462486241, 127>>, <<462486242, 89>>, <<462486243, 65>>, <<462486244, 59>>, <<462486245, 45>>, <<462486246, 233>>,
    <<462486247, 35>>, <<462486248, 237>>, <<462486249, 169>>, <<462486250, 103>>, <<462486251, 97>>, <<462486252, 23>>,
    <<462486253, 109>>, <<462486254, 201>>, <<462486255, 31>>, <<462486256, 223>>, <<462486257, 17>>, <<462486258, 197>>,
    <<462486259, 145>>, <<462486260, 153>>, <<462486261, 141>>, <<481835884, 9>>, <<481835885, 141>>, <<481835886, 73>>,
    <<481835887, 103>>, <<481835888, 141>>, <<481835889, 199>>, <<481835890, 123>>, <<481835891, 235>>, <<481835892, 73>>,
    <<481835893, 175>>, <<481835894, 41>>, <<481835895, 37>>, <<481835896, 231>>, <<481835897, 189>>, <<481835898, 45>>,
    <<481835899, 43>>, <<481835900, 49>>, <<481835901, 125>>, <<481835902, 127>>, <<481835903, 197>>, <<481835904, 11>>,
    <<481835905, 55>>, <<481835906, 45>>, <<481835907, 15>>, <<481835908, 161>>, <<481835909, 191>>, <<481835910, 111>>,
    <<481835911, 151>>, <<481835912, 5>>, <<481835913, 43>>, <<481835914, 141>>, <<481835915, 235>>, <<481835916, 189>>,
    <<481835917, 207>>, <<481835918, 207>>, <<481835919, 137>>, <<481835920, 135>>, <<481835921, 197>>, <<481835922, 221>>,
    <<481835923, 89>>, <<481835924, 27>>, <<501185547, 71>>, <<501185548, 139>>, <<501185549, 97>>, <<501185550, 215>>,
    <<501185551, 107>>, <<501185552, 49>>, <<501185553, 97>>, <<501185554, 15>>, <<501185555, 11>>, <<501185556, 81>>,
    <<501185557, 137>>, <<501185558, 41>>, <<501185559, 195>>, <<501185560, 135>>, <<501185561, 61>>, <<501185562, 17>>,
    <<501185563, 201>>, <<501185564, 161>>, <<501185565, 201>>, <<501185566, 203>>, <<501185567, 139>>, <<501185568, 73>>,
    <<501185569, 181>>, <<501185570, 111>>, <<501185571, 123>>, <<501185572, 235>>, <<501185573, 39>>, <<501185574, 93>>,
    <<501185575, 109>>, <<501185576, 155>>, <<501185577, 21>>, <<501185578, 47>>, <<501185579, 53>>, <<501185580, 179>>,
    <<501185581, 87>>, <<501185582, 135>>, <<501185583, 19>>, <<501185584, 185>>, <<501185585, 111>>, <<501185586, 99>>,
    <<501185587, 179>>, <<458943662, 37>>, <<458943663, 205>>, <<458943664, 147>>, <<458943665, 151>>, <<458943666, 173>>,
    <<458943667, 25>>, <<458943668, 159>>, <<458943669, 19>>, <<458943670, 227>>, <<458943671, 215>>, <<458943672, 105>>,
    <<458943673, 59>>, <<458943674, 197>>, <<458943675, 113>>, <<458943676, 161>>, <<458943677, 167>>, <<458943678, 105>>,
    <<458943679, 75>>, <<458943680, 167>>, <<458943681, 45>>, <<458943682, 185>>, <<458943683, 3>>, <<458943684, 47>>,
    <<458943685, 177>>, <<458943686, 31>>, <<458943687, 131>>, <<458943688, 79>>, <<458943689, 221>>, <<458943690, 73>>,
    <<458943691, 127>>, <<458943692, 183>>, <<458943693, 39>>, <<458943694, 11>>, <<458943695, 11>>, <<458943696, 33>>,
    <<458943697, 43>>, <<458943698, 19>>, <<458943699, 15>>, <<458943700, 129>>, <<458943701, 13>>, <<458943702, 77>>,
    <<478293325, 63>>, <<478293326, 123>>, <<478293327, 227>>, <<478293328, 207>>, <<478293329, 117>>, <<478293330, 63>>,
    <<478293331, 143>>, <<478293332, 217>>, <<478293333, 137>>, <<478293334, 191>>, <<478293335, 51>>, <<478293336, 205>>,
    <<478293337, 175>>, <<478293338, 35>>, <<478293339, 227>>, <<478293340, 59>>, <<478293341, 171>>, <<478293342, 3>>,
    <<478293343, 87>>, <<478293344, 71>>, <<478293345, 127>>, <<478293346, 23>>, <<478293347, 133>>, <<478293348, 77>>,
    <<478293349, 203>>, <<478293350, 161>>, <<478293351, 7>>, <<478293352, 87>>, <<478293353, 225>>, <<478293354, 213>>,
    <<478293355, 177>>, <<478293356, 79>>, <<478293357, 233>>, <<478293358, 75>>, <<478293359, 137>>, <<478293360, 113>>,
    <<478293361, 57>>, <<478293362, 37>>, <<478293363, 25>>, <<478293364, 99>>, <<478293365, 45>>, <<497642988, 179>>,
    <<497642989, 157>>, <<497642990, 111>>, <<497642991, 231>>, <<497642992, 35>>, <<497642993, 191>>, <<497642994, 229>>,
    <<497642995, 89>>, <<497642996, 163>>, <<497642997, 135>>, <<497642998, 25>>, <<497642999, 115>>, <<497643000, 235>>,
    <<497643001, 225>>, <<497643002, 123>>, <<497643003, 231>>, <<497643004, 167>>, <<497643005, 61>>, <<497643006, 91>>,
    <<497643007, 169>>, <<497643008, 209>>, <<497643009, 151>>, <<497643010, 165>>, <<497643011, 127>>, <<497643012, 45>>,
    <<497643013, 75>>, <<497643014, 91>>, <<497643015, 13>>, <<497643016, 131>>, <<497643017, 195>>, <<497643018, 187>>,
    <<497643019, 127>>, <<497643020, 169>>, <<497643021, 49>>, <<497643022, 33>>, <<497643023, 129>>, <<497643024, 235>>,
    <<497643025, 173>>, <<497643026, 79>>, <<497643027, 239>>, <<497643028, 85>>, <<516992651, 45>>, <<516992652, 79>>,
    <<516992653, 11>>, <<516992654, 23>>, <<516992655, 27>>, <<516992656, 177>>, <<516992657, 9>>, <<516992658, 17>>,
    <<516992659, 105>>, <<516992660, 9>>, <<516992661, 199>>, <<516992662, 109>>, <<516992663, 183>>, <<516992664, 9>>,
    <<516992665, 113>>, <<516992666, 43>>, <<516992667, 121>>, <<516992668, 15>>, <<516992669, 99>>, <<516992670, 207>>,
    <<516992671, 59>>, <<516992672, 149>>, <<516992673, 171>>, <<516992674, 3>>, <<516992675, 207>>, <<516992676, 65>>,
    <<516992677, 179>>, <<516992678, 209>>, <<516992679, 221>>, <<516992680, 95>>, <<516992681, 119>>, <<516992682, 51>>,
    <<516992683, 181>>, <<516992684, 185>>, <<516992685, 19>>, <<516992686, 13>>, <<516992687, 165>>, <<516992688, 183>>,
    <<516992689, 237>>, <<516992690, 147>>, <<516992691, 187>>, <<536342314, 189>>, <<536342315, 137>>, <<536342316, 31>>,
    <<536342317, 123>>, <<536342318, 57>>, <<536342319, 159>>, <<536342320, 97>>, <<536342321, 155>>, <<536342322, 101>>,
    <<536342323, 237>>, <<536342324, 215>>, <<536342325, 35>>, <<536342326, 191>>, <<536342327, 41>>, <<536342328, 21>>,
    <<536342329, 79>>, <<536342330, 109>>, <<536342331, 71>>, <<536342332, 109>>, <<536342333, 33>>, <<536342334, 129>>,
    <<536342335, 195>>, <<536342336, 87>>, <<536342337, 15>>, <<536342338, 117>>, <<536342339, 15>>, <<536342340, 19>>,
    <<536342341, 71>>, <<536342342, 155>>, <<536342343, 155>>, <<536342344, 33>>, <<536342345, 213>>, <<536342346, 185>>,
    <<536342347, 221>>, <<536342348, 1>>, <<536342349, 129>>, <<536342350, 195>>, <<536342351, 103>>, <<536342352, 47>>,
    <<536342353, 113>>, <<536342354, 43>>, <<555691977, 81>>, <<555691978, 227>>, <<555691979, 227>>, <<555691980, 223>>,
    <<555691981, 9>>, <<555691982, 225>>, <<555691983, 103>>, <<555691984, 197>>, <<555691985, 217>>, <<555691986, 29>>,
    <<555691987, 171>>, <<555691988, 97>>, <<555691989, 51>>, <<555691990, 63>>, <<555691991, 65>>, <<555691992, 229>>,
    <<555691993, 167>>, <<555691994, 235>>, <<555691995, 83>>, <<555691996, 27>>, <<555691997, 185>>, <<555691998, 223>>,
    <<555691999, 23>>, <<555692000, 217>>, <<555692001, 189>>, <<555692002, 227>>, <<555692003, 227>>, <<555692004, 135>>,
    <<555692005, 21>>, <<555692006, 167>>, <<555692007, 23>>, <<555692008, 87>>, <<555692009, 185>>, <<555692010, 21>>,
    <<555692011, 191>>, <<555692012, 207>>, <<555692013, 239>>, <<555692014, 47>>, <<555692015, 211>>, <<555692016, 119>>,
    <<555692017, 119>>, <<575041640, 141>>, <<575041641, 105>>, <<575041642, 63>>, <<575041643, 161>>, <<575041644, 35>>,
    <<575041645, 7>>, <<575041646, 7>>, <<575041647, 225>>, <<575041648, 211>>, <<575041649, 131>>, <<575041650, 131>>,
    <<575041651, 173>>, <<575041652, 179>>, <<575041653, 177>>, <<575041654, 113>>, <<575041655, 21>>, <<575041656, 203>>,
    <<575041657, 63>>, <<575041658, 79>>, <<575041659, 155>>, <<575041660, 107>>, <<575041661, 195>>, <<575041662, 183>>,
    <<575041663, 191>>, <<575041664, 199>>, <<575041665, 147>>, <<575041666, 13>>, <<575041667, 217>>, <<575041668, 75>>,
    <<575041669, 45>>, <<575041670, 133>>, <<575041671, 39>>, <<575041672, 99>>, <<575041673, 77>>, <<575041674, 225>>,
    <<575041675, 165>>, <<575041676, 219>>, <<575041677, 65>>, <<575041678, 1>>, <<575041679, 67>>, <<575041680, 237>> }

SinFunction == [s \in { p[1] : p \in SinTable } |-> (CHOOSE p \in SinTable : p[1] = s)[2]]


----------------------------------------------------------------------------
(* Terrain: configuration *)

chunkSize == 150
renderDistance == 400
\* mutant: eviction at half the render distance
cleanupDistanceTight == renderDistance \div 2

\* const cleanupDistance = renderDistance * 1.2
cleanupDistance == (renderDistance * 12) \div 10

----------------------------------------------------------------------------
(* Terrain: state *)

VARIABLES
  sinValues,        \* the platform's Math.sin: seed -> Math.sin(seed) * 10000 minus its floor;
                    \* set once and never changed
  planePosition,    \* the planePosition prop: [x, y, z] in world units
  chunksGenerated,  \* chunksGenerated.current: set of chunk keys
  features,         \* features.current: Map from feature id to TerrainFeature
  groundChunks,     \* groundChunks.current: Map from chunk key to GroundChunk
  lastTick,         \* history: {} before the first frame, then {position the last frame read}
  generationLog,    \* history: <<chunkX, chunkZ>> -> the set of contents generateChunk has written for it
  featureOrigin,    \* history: for the ids now in features, the (chunk, type, index) they were written for
  lastGenerated,    \* history: the coordinates generateChunk wrote during the last frame, each with
                    \* whether it had been written in an earlier frame too
  lastReturned,     \* history: the coordinates for which generateChunk returned at its guard
                    \* (line 51) during the last frame, writing nothing and raising nothing
  lastSteps,        \* history: what the last frame did, in order: an "examine" for every
                    \* iteration of its loops, a "generateChunk" for every call, a
                    \* "cleanupDistantChunks" for every eviction pass
  randomCalls,      \* history: the direct calls of seededRandom, as [seed, value, again] with
                    \* again = the seed had been passed in an earlier call
  plane,            \* the Plane component: its refs (speed, targetSpeed, turnSpeed, pitchSpeed,
                    \* visualRoll, mousePosition), its state (keys, mouseControls) and the
                    \* rotation and position of its group
  frameLog,         \* history: the number of frames of the plane and, while no input event
                    \* has come since the last one, its delta, the keys and mouse controls
                    \* it read, its targetPitchSpeed and position.y before the ground
                    \* collision and the ceiling limit
  vanilla,          \* the VideoRestyling component of video-restyling-vanilla.tsx: its
                    \* props, state and refs, the invocations of startRestyling with the
                    \* WebSocket, RTCPeerConnection and stream each created, and the
                    \* reconnect timeouts
  sdk,              \* the VideoRestylingSDK component of video-restyling-sdk.tsx: its
                    \* props, state and refs, the invocations of startRestyling and the
                    \* connection-time intervals
  page,             \* the FlightSimulator page of app/page.tsx: prompt, portalMessage,
                    \* manualPromptCooldown, the clock and the pending timeouts
  renderController  \* the RenderController: the timestamp of the last animation frame,
                    \* lastRenderTime.current and the number of invalidate() calls

vars == << sinValues, planePosition, chunksGenerated, features, groundChunks,
           lastTick, generationLog, featureOrigin, lastGenerated, lastReturned,
           lastSteps, randomCalls, plane, frameLog, vanilla, sdk, page, renderController >>

Registry ==
  [ chunksGenerated |-> chunksGenerated, groundChunks |-> groundChunks,
    features |-> features, generationLog |-> generationLog,
    featureOrigin |-> featureOrigin, lastGenerated |-> lastGenerated,
    lastReturned |-> lastReturned, lastSteps |-> lastSteps ]

----------------------------------------------------------------------------
(* Terrain: seededRandom *)

\* mutant: a generator that advances with every call
seededRandomCounting(seed) == (sinValues[seed] + 2 * Cardinality(randomCalls)) % RngDen

\* const x = Math.sin(seed) * 10000; return x - Math.floor(x)
seededRandom(seed) == sinValues[seed]

----------------------------------------------------------------------------
(* Terrain: generateChunk *)

\* `${chunkX},${chunkZ}`
ChunkKey(chunkX, chunkZ) == NumberToString(chunkX) \o << "," >> \o NumberToString(chunkZ)

\* mutant: the seed also depends on whether the registry is empty
ChunkSeedOfRegistry(chunkX, chunkZ) ==
  chunkX * 73856093 + chunkZ * 19349663 + (IF chunksGenerated = {} THEN 0 ELSE 1)

\* const seed = chunkX * 73856093 + chunkZ * 19349663
ChunkSeed(chunkX, chunkZ) == chunkX * 73856093 + chunkZ * 19349663

groundColors == << "#4ade80", "#22c55e", "#16a34a", "#86efac", "#bbf7d0" >>
buildingColors == << "#64748b", "#475569", "#334155", "#1e293b", "#0f172a", "#71717a" >>

TreeName == << "t", "r", "e", "e" >>
BuildingName == << "b", "u", "i", "l", "d", "i", "n", "g" >>
TowerName == << "t", "o", "w", "e", "r" >>
MountainName == << "m", "o", "u", "n", "t", "a", "i", "n" >>

\* mutant: the chunk key left out of the id
FeatureIdWithoutChunk(chunkKey, name, i) == name \o << "-" >> \o NumberToString(i)

\* `${chunkKey}-${name}-${i}`
FeatureId(chunkKey, name, i) == chunkKey \o << "-" >> \o name \o << "-" >> \o NumberToString(i)

\* the offsets from seed of the draws made once per chunk
ChunkSalts ==
  [ tint |-> 0, density |-> 1, treeCount |-> 2, buildingCount |-> 3,
    landmarkType |-> 4, landmarkCount |-> 5 ]

\* the offsets from seed of the draws made for feature i of each type
TreeSalts(i) == [ x |-> i * 3, z |-> i * 3 + 1, height |-> i * 3 + 2, color |-> i ]
BuildingSalts(i) ==
  [ x |-> i * 4, z |-> i * 4 + 1, width |-> i * 4 + 2, height |-> i * 4 + 3,
    depth |-> i * 4 + 4, color |-> i * 5 ]
TowerSalts(i) == [ x |-> i * 6, z |-> i * 6 + 1, height |-> i * 6 + 2 ]
MountainSalts(i) ==
  [ x |-> i * 6, z |-> i * 6 + 1, height |-> i * 6 + 2, baseSize |-> i * 6 + 3, color |-> i ]

\* mutant: the tile placed at the chunk coordinates, not at the chunk centre
GroundChunkUnscaled(chunkX, chunkZ) ==
  LET seed == ChunkSeed(chunkX, chunkZ)
      colorIndex == RngFloor(seededRandom(seed), Len(groundColors))
  IN  [ id |-> ChunkKey(chunkX, chunkZ),
        position |-> << chunkX * LenScale, -2 * LenScale, chunkZ * LenScale >>,
        color |-> groundColors[colorIndex + 1] ]

GroundChunk(chunkX, chunkZ) ==
  LET seed == ChunkSeed(chunkX, chunkZ)
      colorIndex == RngFloor(seededRandom(seed + ChunkSalts.tint), Len(groundColors))
  IN  [ id |-> ChunkKey(chunkX, chunkZ),
        position |-> << chunkX * chunkSize * LenScale, -2 * LenScale, chunkZ * chunkSize * LenScale >>,
        color |-> groundColors[colorIndex + 1] ]

Tree(chunkX, chunkZ, i) ==
  LET seed == ChunkSeed(chunkX, chunkZ)
      salt == TreeSalts(i)
      x == chunkX * chunkSize * LenScale + RngOffset(seededRandom(seed + salt.x), chunkSize, 8)
      z == chunkZ * chunkSize * LenScale + RngOffset(seededRandom(seed + salt.z), chunkSize, 8)
      height == RngLen(10, seededRandom(seed + salt.height), 15)
      featureId == FeatureId(ChunkKey(chunkX, chunkZ), TreeName, i)
  IN  << featureId,
         [ id |-> featureId, type |-> "trees",
           position |-> << x, (height \div 2) - 2 * LenScale, z >>,
           size |-> << 4 * LenScale, height, 4 * LenScale >>,
           color |-> IF RngGreater(seededRandom(seed + salt.color), 50)
                     THEN "#22c55e" ELSE "#16a34a" ] >>

Building(chunkX, chunkZ, i) ==
  LET seed == ChunkSeed(chunkX, chunkZ)
      salt == BuildingSalts(i)
      x == chunkX * chunkSize * LenScale + RngOffset(seededRandom(seed + salt.x), chunkSize, 9)
      z == chunkZ * chunkSize * LenScale + RngOffset(seededRandom(seed + salt.z), chunkSize, 9)
      width == RngLen(4, seededRandom(seed + salt.width), 6)
      height == RngLen(10, seededRandom(seed + salt.height), 30)
      depth == RngLen(4, seededRandom(seed + salt.depth), 6)
      colorIndex == RngFloor(seededRandom(seed + salt.color), Len(buildingColors))
      featureId == FeatureId(ChunkKey(chunkX, chunkZ), BuildingName, i)
  IN  << featureId,
         [ id |-> featureId, type |-> "building",
           position |-> << x, (height \div 2) - 2 * LenScale, z >>,
           size |-> << width, height, depth >>,
           color |-> buildingColors[colorIndex + 1] ] >>

\* mutant: the variant drawn again for every landmark
LandmarkVariantPerFeature(chunkX, chunkZ, i) ==
  LET seed == ChunkSeed(chunkX, chunkZ)
      landmarkType == IF RngGreater(seededRandom(seed + ChunkSalts.landmarkType + i), 50)
                      THEN "tower" ELSE "mountain"
      salt == MountainSalts(i)
      x == chunkX * chunkSize * LenScale + RngOffset(seededRandom(seed + salt.x), chunkSize, 7)
      z == chunkZ * chunkSize * LenScale + RngOffset(seededRandom(seed + salt.z), chunkSize, 7)
      height == RngLen(40, seededRandom(seed + salt.height), 80)
      featureId == FeatureId(ChunkKey(chunkX, chunkZ),
                             IF landmarkType = "tower" THEN TowerName ELSE MountainName, i)
  IN  << featureId,
         [ id |-> featureId, type |-> landmarkType,
           position |-> << x, (height \div 2) - 2 * LenScale, z >>,
           size |-> << 8 * LenScale, height, 8 * LenScale >>,
           color |-> "#ef4444" ] >>

Landmark(chunkX, chunkZ, i) ==
  LET seed == ChunkSeed(chunkX, chunkZ)
      landmarkType == IF RngGreater(seededRandom(seed + ChunkSalts.landmarkType), 50)
                      THEN "tower" ELSE "mountain"
      salt == MountainSalts(i)
      x == chunkX * chunkSize * LenScale + RngOffset(seededRandom(seed + salt.x), chunkSize, 7)
      z == chunkZ * chunkSize * LenScale + RngOffset(seededRandom(seed + salt.z), chunkSize, 7)
  IN  IF landmarkType = "tower"
      THEN LET height == RngLen(50, seededRandom(seed + TowerSalts(i).height), 100)
               featureId == FeatureId(ChunkKey(chunkX, chunkZ), TowerName, i)
           IN  << featureId,
                  [ id |-> featureId, type |-> "tower",
                    position |-> << x, (height \div 2) - 2 * LenScale, z >>,
                    size |-> << 8 * LenScale, height, 8 * LenScale >>,
                    color |-> "#ef4444" ] >>
      ELSE LET height == RngLen(40, seededRandom(seed + salt.height), 80)
               baseSize == RngLen(25, seededRandom(seed + salt.baseSize), 40)
               featureId == FeatureId(ChunkKey(chunkX, chunkZ), MountainName, i)
           IN  << featureId,
                  [ id |-> featureId, type |-> "mountain",
                    position |-> << x, (height \div 2) - 2 * LenScale, z >>,
                    size |-> << baseSize, height, baseSize >>,
                    color |-> IF RngGreater(seededRandom(seed + salt.color), 60)
                              THEN "#78716c" ELSE "#57534e" ] >>

\* mutant: the forest band ends at 0.6
ChunkFeaturesForestToSixty(chunkX, chunkZ) ==
  LET seed == ChunkSeed(chunkX, chunkZ)
      density == seededRandom(seed + 1)
  IN  IF RngLess(density, 50) THEN << >>
      ELSE IF RngLess(density, 60)
      THEN LET treeCount == 3 + RngFloor(seededRandom(seed + 2), 4)
           IN  [ j \in 1..treeCount |-> Tree(chunkX, chunkZ, j - 1) ]
      ELSE IF RngLess(density, 85)
      THEN LET buildingCount == 4 + RngFloor(seededRandom(seed + 3), 5)
           IN  [ j \in 1..buildingCount |-> Building(chunkX, chunkZ, j - 1) ]
      ELSE LET count == 1 + RngFloor(seededRandom(seed + 5), 2)
           IN  [ j \in 1..count |-> Landmark(chunkX, chunkZ, j - 1) ]

\* mutant: up to seven trees
ChunkFeaturesSevenTrees(chunkX, chunkZ) ==
  LET seed == ChunkSeed(chunkX, chunkZ)
      density == seededRandom(seed + 1)
  IN  IF RngLess(density, 50) THEN << >>
      ELSE IF RngLess(density, 65)
      THEN LET treeCount == 3 + RngFloor(seededRandom(seed + 2), 5)
           IN  [ j \in 1..treeCount |-> Tree(chunkX, chunkZ, j - 1) ]
      ELSE IF RngLess(density, 85)
      THEN LET buildingCount == 4 + RngFloor(seededRandom(seed + 3), 5)
           IN  [ j \in 1..buildingCount |-> Building(chunkX, chunkZ, j - 1) ]
      ELSE LET count == 1 + RngFloor(seededRandom(seed + 5), 2)
           IN  [ j \in 1..count |-> Landmark(chunkX, chunkZ, j - 1) ]

\* the features.current.set(featureId, ...) calls of one generation, in order,
\* as <<featureId, feature>> pairs
ChunkFeatures(chunkX, chunkZ) ==
  LET seed == ChunkSeed(chunkX, chunkZ)
      density == seededRandom(seed + ChunkSalts.density)
  IN  IF RngLess(density, 50) THEN << >>
      ELSE IF RngLess(density, 65)
      THEN LET treeCount == 3 + RngFloor(seededRandom(seed + ChunkSalts.treeCount), 4)
           IN  [ j \in 1..treeCount |-> Tree(chunkX, chunkZ, j - 1) ]
      ELSE IF RngLess(density, 85)
      THEN LET buildingCount == 4 + RngFloor(seededRandom(seed + ChunkSalts.buildingCount), 5)
           IN  [ j \in 1..buildingCount |-> Building(chunkX, chunkZ, j - 1) ]
      ELSE LET count == 1 + RngFloor(seededRandom(seed + ChunkSalts.landmarkCount), 2)
           IN  [ j \in 1..count |-> Landmark(chunkX, chunkZ, j - 1) ]

\* the draws one generation makes, as [decision, salt]: seededRandom(seed + salt)
\* decides <<what, index, which>>
FeatureDraws(what, i, salts) ==
  { [ decision |-> << what, i, which >>, salt |-> salts[which] ] : which \in DOMAIN salts }

Draws(chunkX, chunkZ) ==
  LET seed == ChunkSeed(chunkX, chunkZ)
      density == seededRandom(seed + ChunkSalts.density)
      count == Len(ChunkFeatures(chunkX, chunkZ))
      OfChunk(which) == [ decision |-> << "chunk", 0, which >>, salt |-> ChunkSalts[which] ]
  IN  { OfChunk("tint"), OfChunk("density") } \cup
      IF RngLess(density, 50) THEN {}
      ELSE IF RngLess(density, 65)
      THEN { OfChunk("treeCount") } \cup
           UNION { FeatureDraws("trees", i, TreeSalts(i)) : i \in 0..(count - 1) }
      ELSE IF RngLess(density, 85)
      THEN { OfChunk("buildingCount") } \cup
           UNION { FeatureDraws("building", i, BuildingSalts(i)) : i \in 0..(count - 1) }
      ELSE { OfChunk("landmarkType"), OfChunk("landmarkCount") } \cup
           IF RngGreater(seededRandom(seed + ChunkSalts.landmarkType), 50)
           THEN UNION { FeatureDraws("tower", i, TowerSalts(i)) : i \in 0..(count - 1) }
           ELSE UNION { FeatureDraws("mountain", i, MountainSalts(i)) : i \in 0..(count - 1) }

\* mutant: the guard of generateChunk is missing
AlreadyGeneratedNever(reg, chunkKey) == FALSE

\* mutant: a chunk whose ground tile is gone counts as not generated
AlreadyGeneratedWithTile(reg, chunkKey) ==
  chunkKey \in reg.chunksGenerated /\ chunkKey \in DOMAIN reg.groundChunks

\* chunksGenerated.current.has(chunkKey)
AlreadyGenerated(reg, chunkKey) == chunkKey \in reg.chunksGenerated

generateChunk(reg, chunkX, chunkZ) ==
  LET chunkKey == ChunkKey(chunkX, chunkZ)
      ground == GroundChunk(chunkX, chunkZ)
      written == ChunkFeatures(chunkX, chunkZ)
      content == [ ground |-> ground, features |-> written ]
      coord == << chunkX, chunkZ >>
  IN  IF AlreadyGenerated(reg, chunkKey)
      THEN [ reg EXCEPT !.lastReturned = @ \cup { coord } ]
      ELSE [ chunksGenerated |-> reg.chunksGenerated \cup { chunkKey },
             groundChunks |-> MapSet(reg.groundChunks, chunkKey, ground),
             features |-> MapSetEach(reg.features, written),
             generationLog |->
               IF coord \in DOMAIN reg.generationLog
               THEN [ reg.generationLog EXCEPT ![coord] = @ \cup { content } ]
               ELSE (coord :> { content }) @@ reg.generationLog,
             featureOrigin |->
               reg.featureOrigin \cup
                 { [ id |-> written[j][1], chunk |-> coord,
                     type |-> written[j][2].type, index |-> j - 1 ] : j \in 1..Len(written) },
             lastGenerated |->
               reg.lastGenerated \cup
                 { [ chunk |-> coord, again |-> coord \in DOMAIN reg.generationLog ] },
             lastReturned |-> reg.lastReturned,
             lastSteps |-> reg.lastSteps ]

----------------------------------------------------------------------------
(* Terrain: cleanupDistantChunks *)

\* mutant: features are deleted when their chunk is no longer in chunksGenerated
DistantFeaturesByRecord(reg, planeX, planeZ) ==
  { o.id : o \in { g \in reg.featureOrigin :
                     ChunkKey(g.chunk[1], g.chunk[2]) \notin reg.chunksGenerated } }

\* ids of the features the first forEach deletes
DistantFeatures(reg, planeX, planeZ) ==
  { id \in DOMAIN reg.features :
      ~IsNaN(planeX) /\ ~IsNaN(planeZ) /\
      DistanceAtLeast(reg.features[id].position[1] - planeX * LenScale,
                      reg.features[id].position[3] - planeZ * LenScale,
                      cleanupDistance) }

\* mutant: ground chunks are deleted from renderDistance on
DistantGroundChunksAtRender(reg, planeX, planeZ) ==
  { id \in DOMAIN reg.groundChunks :
      DistanceAtLeast(reg.groundChunks[id].position[1] - planeX * LenScale,
                      reg.groundChunks[id].position[3] - planeZ * LenScale,
                      renderDistance) }

\* mutant: a ground chunk is deleted unless its distance is below cleanupDistance
DistantGroundChunksUnlessNear(reg, planeX, planeZ) ==
  { id \in DOMAIN reg.groundChunks :
      IsNaN(planeX) \/ IsNaN(planeZ) \/
      DistanceAtLeast(reg.groundChunks[id].position[1] - planeX * LenScale,
                      reg.groundChunks[id].position[3] - planeZ * LenScale,
                      cleanupDistance) }

\* ids of the ground chunks the second forEach deletes
DistantGroundChunks(reg, planeX, planeZ) ==
  { id \in DOMAIN reg.groundChunks :
      ~IsNaN(planeX) /\ ~IsNaN(planeZ) /\
      DistanceAtLeast(reg.groundChunks[id].position[1] - planeX * LenScale,
                      reg.groundChunks[id].position[3] - planeZ * LenScale,
                      cleanupDistance) }

\* mutant: the chunk registry is never cleaned
ChunksToRemoveNone(reg, planeX, planeZ) == {}

\* chunksToRemove
ChunksToRemove(reg, planeX, planeZ) ==
  { chunkKey \in reg.chunksGenerated :
      LET parts == SplitComma(chunkKey)
          chunkX == StringToNumber(parts[1])
          chunkZ == StringToNumber(parts[2])
          centerX == chunkX * chunkSize
          centerZ == chunkZ * chunkSize
      IN  ~IsNaN(planeX) /\ ~IsNaN(planeZ) /\
          DistanceGreater((centerX - planeX) * LenScale, (centerZ - planeZ) * LenScale,
                          cleanupDistance) }

cleanupDistantChunks(reg, planeX, planeZ) ==
  LET gone == DistantFeatures(reg, planeX, planeZ)
  IN  [ chunksGenerated |-> reg.chunksGenerated \ ChunksToRemove(reg, planeX, planeZ),
        groundChunks |-> MapDeleteAll(reg.groundChunks, DistantGroundChunks(reg, planeX, planeZ)),
        features |-> MapDeleteAll(reg.features, gone),
        generationLog |-> reg.generationLog,
        featureOrigin |-> { o \in reg.featureOrigin : o.id \notin gone },
        lastGenerated |-> reg.lastGenerated,
        lastReturned |-> reg.lastReturned,
        lastSteps |-> reg.lastSteps ]

----------------------------------------------------------------------------
(* Plane (src/components/plane.tsx): numbers *)

\* speeds, angles, coordinates, the mouse position and the frame delta
\* (seconds) are integers in units of 1/Milli
Milli == 1000

\* floor(a * b / Milli): the product of two numbers, the larger one first
Times(a, b) == (a \div Milli) * b + ((a % Milli) * b) \div Milli

Min(a, b) == IF a < b THEN a ELSE b
Max(a, b) == IF a > b THEN a ELSE b

\* Math.PI
Pi == 3142

\* the angle a brought into -Pi/2 .. Pi/2 with the same sine
SineArgument(a) ==
  LET turn == a % (2 * Pi)
      m == IF turn > Pi THEN turn - 2 * Pi ELSE turn
  IN  IF 2 * m > Pi THEN Pi - m ELSE IF 2 * m < -Pi THEN -Pi - m ELSE m

\* Math.sin, by the polynomial of degree 7
Sine(a) ==
  LET h == SineArgument(a)
      h2 == Times(h, h)
      h3 == Times(h2, h)
      h5 == Times(h3, h2)
      h7 == Times(h5, h2)
  IN  h - h3 \div 6 + h5 \div 120 - h7 \div 5040

\* Math.cos
Cosine(a) == Sine(a + Pi \div 2)

----------------------------------------------------------------------------
(* Plane: state and event handlers *)

\* the values of keyMap
KeyNames ==
  { "a", "d", "w", "s", "arrowUp", "arrowDown", "arrowLeft", "arrowRight", "space", "shift" }

\* the refs and state of the component and the transform of its group, as
\* the component is mounted
MountedPlane ==
  [ speed |-> 20 * Milli, targetSpeed |-> 20 * Milli, turnSpeed |-> 0, pitchSpeed |-> 0,
    visualRoll |-> 0, keys |-> {}, mouseControls |-> FALSE,
    mousePosition |-> [ x |-> 0, y |-> 0 ],
    rotation |-> [ x |-> 0, y |-> 0, z |-> 0 ],
    position |-> [ x |-> 0, y |-> 10 * Milli, z |-> 0 ] ]

\* no frame yet
NoFrame == [ count |-> 0, last |-> << >> ]

\* an input event has come since the last frame
EventSeen == frameLog' = [ frameLog EXCEPT !.last = << >> ]

PlaneMounted == plane = MountedPlane /\ frameLog = NoFrame

TerrainUnchanged ==
  UNCHANGED << sinValues, chunksGenerated, features, groundChunks, lastTick,
               generationLog, featureOrigin, lastGenerated, lastReturned, lastSteps,
               randomCalls, vanilla, sdk, page, renderController >>

\* handleKeyDown for an event whose key maps to mappedKey
handleKeyDown(mappedKey) ==
  /\ plane' = [ plane EXCEPT !.keys = @ \cup { mappedKey } ]
  /\ EventSeen
  /\ UNCHANGED planePosition
  /\ TerrainUnchanged

\* handleKeyUp for an event whose key maps to mappedKey
handleKeyUp(mappedKey) ==
  /\ plane' = [ plane EXCEPT !.keys = @ \ { mappedKey } ]
  /\ EventSeen
  /\ UNCHANGED planePosition
  /\ TerrainUnchanged

\* handleMouseMove for a pointer at (x, y) after normalisation to -1 .. 1
handleMouseMove(x, y) ==
  /\ plane' = IF ~plane.mouseControls THEN plane
              ELSE [ plane EXCEPT !.mousePosition = [ x |-> x, y |-> y ] ]
  /\ EventSeen
  /\ UNCHANGED planePosition
  /\ TerrainUnchanged

\* handleMouseDown: the right button toggles the mouse controls
handleMouseDown(button) ==
  /\ plane' = IF button = 2 THEN [ plane EXCEPT !.mouseControls = ~@ ] ELSE plane
  /\ EventSeen
  /\ UNCHANGED planePosition
  /\ TerrainUnchanged

----------------------------------------------------------------------------
(* Plane: the useFrame callback *)

normalSpeed == 20 * Milli
boostSpeed == 35 * Milli
brakeSpeed == 10 * Milli

\* mutant: the brake takes priority over the boost
TargetSpeedBrakeFirst(keys, targetSpeed, delta) ==
  IF "shift" \in keys THEN brakeSpeed
  ELSE IF "space" \in keys THEN boostSpeed
  ELSE IF "w" \in keys THEN Min(targetSpeed + Times(15 * Milli, delta), 30 * Milli)
  ELSE IF "s" \in keys THEN Max(targetSpeed - Times(15 * Milli, delta), 12 * Milli)
  ELSE normalSpeed

\* the value the speed control assigns to targetSpeed.current
TargetSpeed(keys, targetSpeed, delta) ==
  IF "space" \in keys THEN boostSpeed
  ELSE IF "shift" \in keys THEN brakeSpeed
  ELSE IF "w" \in keys THEN Min(targetSpeed + Times(15 * Milli, delta), 30 * Milli)
  ELSE IF "s" \in keys THEN Max(targetSpeed - Times(15 * Milli, delta), 12 * Milli)
  ELSE normalSpeed

\* let targetTurnSpeed
TargetTurnSpeed(keys, mouseControls, mousePosition) ==
  IF mouseControls THEN -mousePosition.x * 3
  ELSE IF "a" \in keys \/ "arrowLeft" \in keys THEN 2500
  ELSE IF "d" \in keys \/ "arrowRight" \in keys THEN -2500
  ELSE 0

\* mutant: W and S pitch as the arrow keys do
TargetPitchSpeedFromWS(keys, mouseControls, mousePosition) ==
  IF mouseControls THEN mousePosition.y * 3
  ELSE IF "arrowUp" \in keys \/ "w" \in keys THEN 2200
  ELSE IF "arrowDown" \in keys \/ "s" \in keys THEN -2200
  ELSE 0

\* let targetPitchSpeed
TargetPitchSpeed(keys, mouseControls, mousePosition) ==
  IF mouseControls THEN mousePosition.y * 3
  ELSE IF "arrowUp" \in keys THEN 2200
  ELSE IF "arrowDown" \in keys THEN -2200
  ELSE 0

\* const maxPitch = Math.PI / 2.5
maxPitch == (Pi * 10) \div 25

\* mutant: no ground collision
CollideCeilingOnly(y) == IF y > 200 * Milli THEN 200 * Milli ELSE y

\* position.y after the ground collision and the ceiling limit
Collide(y) ==
  LET grounded == IF y < 1500 THEN 1500 ELSE y
  IN  IF grounded > 200 * Milli THEN 200 * Milli ELSE grounded

\* the callback for a frame of delta
PlaneFrame(delta) ==
  LET keys == plane.keys
      targetSpeed == TargetSpeed(keys, plane.targetSpeed, delta)
      speed == plane.speed + Times((targetSpeed - plane.speed) * 5, delta)
      targetTurnSpeed == TargetTurnSpeed(keys, plane.mouseControls, plane.mousePosition)
      turnSpeed == plane.turnSpeed + Times((targetTurnSpeed - plane.turnSpeed) * 8, delta)
      rotationY == plane.rotation.y + Times(turnSpeed, delta)
      targetRoll == Times(-turnSpeed, 300)
      visualRoll == plane.visualRoll + Times((targetRoll - plane.visualRoll) * 5, delta)
      targetPitchSpeed == TargetPitchSpeed(keys, plane.mouseControls, plane.mousePosition)
      pitchSpeed == plane.pitchSpeed + Times((targetPitchSpeed - plane.pitchSpeed) * 8, delta)
      pitched == Max(-maxPitch, Min(maxPitch, plane.rotation.x + Times(pitchSpeed, delta)))
      rotationX == IF "arrowUp" \notin keys /\ "arrowDown" \notin keys /\ ~plane.mouseControls
                   THEN Times(pitched, 980) ELSE pitched
      \* forward = (0, 0, -1) turned by rotation (Euler order XYZ)
      forward == [ x |-> -Sine(rotationY),
                   y |-> Times(Sine(rotationX), Cosine(rotationY)),
                   z |-> -Times(Cosine(rotationX), Cosine(rotationY)) ]
      distance == Times(speed, delta)
      verticalInfluence == (Times(speed, rotationX) * 25) \div 10
      assist == IF plane.position.y < 3 * Milli /\ "arrowDown" \notin keys /\ rotationX >= 0
                THEN Times(Times(3 * Milli - plane.position.y, 200), delta) ELSE 0
      movement == [ x |-> Times(distance, forward.x),
                    y |-> Times(distance, forward.y) + Times(verticalInfluence, delta)
                          - Times(500, delta) + assist,
                    z |-> Times(distance, forward.z) ]
      y == plane.position.y + movement.y
      position == [ x |-> plane.position.x + movement.x,
                    y |-> Collide(y),
                    z |-> plane.position.z + movement.z ]
      pulledUp == IF y < 1500 /\ rotationX < 0 THEN Times(rotationX, 800) ELSE rotationX
  IN  /\ frameLog.count < MaxFrames
      /\ plane' = [ plane EXCEPT !.targetSpeed = targetSpeed, !.speed = speed,
                                 !.turnSpeed = turnSpeed, !.visualRoll = visualRoll,
                                 !.pitchSpeed = pitchSpeed,
                                 !.rotation = [ x |-> pulledUp, y |-> rotationY, z |-> visualRoll ],
                                 !.position = position ]
      /\ frameLog' = [ count |-> frameLog.count + 1,
                       last |-> << [ delta |-> delta, keys |-> keys,
                                     mouseControls |-> plane.mouseControls,
                                     targetPitchSpeed |-> targetPitchSpeed, y |-> y ] >> ]
      \* onPositionChange(plane.position.clone()), in whole world units
      /\ planePosition' = [ x |-> position.x \div Milli, y |-> position.y \div Milli,
                            z |-> position.z \div Milli ]
      /\ TerrainUnchanged

----------------------------------------------------------------------------
(* VideoRestyling (src/components/video-restyling-vanilla.tsx)             *)
(*                                                                         *)
(* An invocation of startRestyling is a record of vanilla.calls: the       *)
(* await it is suspended at (pc) and the objects it has created, the       *)
(* WebSocket by its readyState, the RTCPeerConnection by its               *)
(* signalingState, the captured stream.  Refs hold the index of the        *)
(* invocation whose object they point to, 0 for null.  The state setters   *)
(* of one handler take effect together.                                    *)

\* the rest of the program, which the components around the canvas leave alone
SceneUnchanged ==
  UNCHANGED << sinValues, planePosition, chunksGenerated, features, groundChunks,
               lastTick, generationLog, featureOrigin, lastGenerated, lastReturned,
               lastSteps, randomCalls, plane, frameLog >>

\* the component after its first render under props that let Start be pressed
MountedVanilla ==
  [ mounted |-> TRUE,
    apiKey |-> "key", canvasElement |-> "canvas", videoOutputRef |-> "video",
    isConnected |-> FALSE, isConnecting |-> FALSE, error |-> "null",
    connectionState |-> "disconnected",
    wsRef |-> 0, peerConnectionRef |-> 0, streamRef |-> 0, reconnectTimeoutRef |-> 0,
    isManualDisconnectRef |-> FALSE,
    lastStart |-> << >>,  \* history: << >>, or <<apiKey>> when the last step of the
                          \* component was a call of startRestyling closing over apiKey
    calls |-> << >>,      \* the invocations of startRestyling that passed the canvas check
    timeouts |-> << >> ]  \* the reconnect timeouts: "pending", "fired" or "cleared",
                          \* each with the apiKey its startRestyling closes over

\* the canvas sizes startRestyling may find: the required one and the default of a canvas
CanvasSizes == { << 1280, 704 >>, << 300, 150 >> }

\* an invocation suspended at the 2000 ms wait, with the stream it captured and
\* the apiKey of the render its closure belongs to
CapturedCall(apiKey) ==
  [ pc |-> "delay", ws |-> "none", peer |-> "none", stream |-> "live", apiKey |-> apiKey,
    stopped |-> FALSE,    \* history: stopRestyling has closed this invocation's WebSocket
    offered |-> FALSE, answered |-> FALSE ]

OpenSocketStates == { "CONNECTING", "OPEN" }
OpenPeerStates == { "new", "have-local-offer", "stable" }

\* the catch block of startRestyling
VanillaCatch(v, message) ==
  [ v EXCEPT !.error = message, !.isConnecting = FALSE, !.isConnected = FALSE ]

\* track.stop() on the tracks of streamRef.current
StopStream(v) ==
  IF v.streamRef = 0 THEN v
  ELSE [ v EXCEPT !.calls[v.streamRef].stream = "stopped" ]

\* startRestyling of a render with the given apiKey, up to its first await,
\* finding a canvas of the given size
VanillaStartRestyling(v, apiKey, size) ==
  IF apiKey = "" THEN [ v EXCEPT !.error = "Please enter your Decart API key" ]
  ELSE IF v.canvasElement = "null"
  THEN [ v EXCEPT !.error = "Canvas not ready. Please wait for the scene to load." ]
  ELSE IF v.videoOutputRef = "null" THEN [ v EXCEPT !.error = "Video element not ready" ]
  ELSE LET entered == [ v EXCEPT !.isConnecting = TRUE, !.error = "null",
                                 !.isManualDisconnectRef = FALSE ]
       IN  IF size # << 1280, 704 >>
           THEN VanillaCatch(entered, "Canvas resolution mismatch")
           ELSE [ StopStream(entered) EXCEPT !.calls = Append(@, CapturedCall(apiKey)) ]

\* ws.onopen
wsOnOpen(v) == [ v EXCEPT !.connectionState = "connecting" ]

\* ws.onerror
wsOnError(v) ==
  [ v EXCEPT !.error = "WebSocket connection failed", !.isConnecting = FALSE,
             !.isConnected = FALSE ]

\* ws.onclose of the WebSocket of invocation i
wsOnClose(v, i) ==
  IF ~v.isManualDisconnectRef
  THEN [ v EXCEPT !.connectionState = "disconnected", !.isConnected = FALSE,
                  !.error = "Connection lost, reconnecting...",
                  !.timeouts = Append(@, [ state |-> "pending",
                                           apiKey |-> v.calls[i].apiKey ]),
                  !.reconnectTimeoutRef = Len(v.timeouts) + 1 ]
  ELSE [ v EXCEPT !.connectionState = "disconnected", !.isConnected = FALSE ]

\* ws.onmessage for an answer, once setRemoteDescription has resolved
wsOnMessage(v) ==
  [ v EXCEPT !.calls[v.peerConnectionRef].peer = "stable",
             !.isConnected = TRUE, !.isConnecting = FALSE,
             !.connectionState = "connected" ]

\* stopRestyling
VanillaStopRestyling(v) ==
  LET closed(i, call) ==
        [ call EXCEPT !.peer = IF i = v.peerConnectionRef THEN "closed" ELSE @,
                      !.ws = IF i = v.wsRef /\ @ \in OpenSocketStates THEN "CLOSING" ELSE @,
                      !.stopped = IF i = v.wsRef THEN TRUE ELSE @,
                      !.stream = IF i = v.streamRef THEN "stopped" ELSE @ ]
  IN  [ v EXCEPT !.isManualDisconnectRef = TRUE,
                 !.timeouts = [ t \in DOMAIN @ |->
                                  IF t = v.reconnectTimeoutRef /\ @[t].state = "pending"
                                  THEN [ @[t] EXCEPT !.state = "cleared" ] ELSE @[t] ],
                 !.reconnectTimeoutRef = 0,
                 !.calls = [ i \in DOMAIN @ |-> closed(i, @[i]) ],
                 !.peerConnectionRef = 0, !.wsRef = 0, !.streamRef = 0,
                 !.isConnected = FALSE, !.connectionState = "disconnected",
                 !.error = "null" ]

\* a step of the component: a handler or a continuation of startRestyling
VanillaStep(v) ==
  /\ vanilla' = [ v EXCEPT !.lastStart = << >> ]
  /\ SceneUnchanged /\ UNCHANGED << sdk, page, renderController >>

\* a step of the component: a call of startRestyling closing over apiKey
VanillaStarted(v, apiKey) ==
  /\ vanilla' = [ v EXCEPT !.lastStart = << apiKey >> ]
  /\ SceneUnchanged /\ UNCHANGED << sdk, page, renderController >>

\* a 100 ms poll of ws.readyState is about to settle: the timers of 2000 ms and
\* 3000 ms do not run before it has
PollSettling ==
  \E i \in DOMAIN vanilla.calls :
    vanilla.calls[i].pc = "ready" /\ vanilla.calls[i].ws # "CONNECTING"

\* the Start button, enabled as its disabled attribute allows and shown while not connected
VanillaClickStart ==
  \E size \in CanvasSizes :
    /\ vanilla.mounted /\ ~vanilla.isConnected
    /\ ~(vanilla.isConnecting \/ vanilla.apiKey = "" \/ vanilla.canvasElement = "null")
    /\ Len(vanilla.calls) < MaxCalls
    /\ VanillaStarted(VanillaStartRestyling(vanilla, vanilla.apiKey, size), vanilla.apiKey)

\* startRestyling called whatever the button shows
VanillaCallStart ==
  \E size \in CanvasSizes :
    /\ vanilla.mounted
    /\ Len(vanilla.calls) < MaxCalls
    /\ VanillaStarted(VanillaStartRestyling(vanilla, vanilla.apiKey, size), vanilla.apiKey)

\* the Stop button, shown while connected
VanillaClickStop ==
  /\ vanilla.mounted /\ vanilla.isConnected
  /\ VanillaStep(VanillaStopRestyling(vanilla))

\* a reconnect timeout fires, 3000 ms after the close that set it
VanillaReconnect ==
  \E t \in DOMAIN vanilla.timeouts, size \in CanvasSizes :
    /\ vanilla.timeouts[t].state = "pending"
    /\ ~PollSettling
    /\ Len(vanilla.calls) < MaxCalls
    /\ VanillaStarted(VanillaStartRestyling([ vanilla EXCEPT !.timeouts[t].state = "fired" ],
                                            vanilla.timeouts[t].apiKey, size),
                      vanilla.timeouts[t].apiKey)

\* the 2000 ms wait is over: the stream is kept and the WebSocket created
VanillaDelayElapsed ==
  \E i \in DOMAIN vanilla.calls :
    /\ vanilla.calls[i].pc = "delay"
    /\ ~PollSettling
    /\ VanillaStep([ vanilla EXCEPT !.calls[i].pc = "ready", !.calls[i].ws = "CONNECTING",
                                    !.streamRef = i, !.wsRef = i ])

\* the handshake of a WebSocket succeeds: readyState OPEN and the open event
VanillaSocketOpens ==
  \E i \in DOMAIN vanilla.calls :
    /\ vanilla.calls[i].ws = "CONNECTING"
    /\ VanillaStep(wsOnOpen([ vanilla EXCEPT !.calls[i].ws = "OPEN" ]))

\* a WebSocket connection fails: readyState CLOSED, the error event and then
\* the close event, in one task
VanillaSocketFails ==
  \E i \in DOMAIN vanilla.calls :
    /\ vanilla.calls[i].ws \in { "CONNECTING", "OPEN", "CLOSING" }
    /\ VanillaStep(wsOnClose(wsOnError([ vanilla EXCEPT !.calls[i].ws = "CLOSED" ]), i))

\* a WebSocket is closed by the server or its closing handshake ends:
\* readyState CLOSED and the close event
VanillaSocketCloses ==
  \E i \in DOMAIN vanilla.calls :
    /\ vanilla.calls[i].ws \in { "OPEN", "CLOSING" }
    /\ VanillaStep(wsOnClose([ vanilla EXCEPT !.calls[i].ws = "CLOSED" ], i))

\* the 100 ms poll of ws.readyState settles: the RTCPeerConnection is created
\* on OPEN, the promise rejects on CLOSING or CLOSED
VanillaSocketReady ==
  \E i \in DOMAIN vanilla.calls :
    /\ vanilla.calls[i].pc = "ready"
    /\ vanilla.calls[i].ws # "CONNECTING"
    /\ VanillaStep(IF vanilla.calls[i].ws = "OPEN"
                   THEN [ vanilla EXCEPT !.calls[i].pc = "offer", !.calls[i].peer = "new",
                                         !.peerConnectionRef = i ]
                   ELSE VanillaCatch([ vanilla EXCEPT !.calls[i].pc = "caught" ],
                                     "WebSocket failed to connect"))

\* createOffer and setLocalDescription resolve and the offer and the prompt
\* are sent; on a closed RTCPeerConnection createOffer rejects
VanillaOfferSent ==
  \E i \in DOMAIN vanilla.calls :
    /\ vanilla.calls[i].pc = "offer"
    /\ VanillaStep(IF vanilla.calls[i].peer = "closed"
                   THEN VanillaCatch([ vanilla EXCEPT !.calls[i].pc = "caught" ],
                                     "The RTCPeerConnection's signalingState is 'closed'.")
                   ELSE [ vanilla EXCEPT !.calls[i].pc = "done",
                                         !.calls[i].peer = "have-local-offer",
                                         !.calls[i].offered = vanilla.calls[i].ws = "OPEN" ])

\* createOffer or setLocalDescription rejects
VanillaOfferFails ==
  \E i \in DOMAIN vanilla.calls :
    /\ vanilla.calls[i].pc = "offer"
    /\ VanillaStep(VanillaCatch([ vanilla EXCEPT !.calls[i].pc = "caught" ],
                                "Failed to connect"))

\* the server answers the offer it received on a WebSocket, and
\* setRemoteDescription on peerConnectionRef.current resolves
VanillaAnswer ==
  \E i \in DOMAIN vanilla.calls :
    /\ vanilla.calls[i].ws = "OPEN" /\ vanilla.calls[i].offered
    /\ ~vanilla.calls[i].answered
    /\ vanilla.peerConnectionRef # 0
    /\ vanilla.calls[vanilla.peerConnectionRef].peer = "have-local-offer"
    /\ VanillaStep(wsOnMessage([ vanilla EXCEPT !.calls[i].answered = TRUE ]))

VanillaNext ==
  \/ VanillaClickStart
  \/ VanillaClickStop
  \/ VanillaReconnect
  \/ VanillaDelayElapsed
  \/ VanillaSocketOpens
  \/ VanillaSocketFails
  \/ VanillaSocketCloses
  \/ VanillaSocketReady
  \/ VanillaOfferSent
  \/ VanillaOfferFails
  \/ VanillaAnswer

----------------------------------------------------------------------------
(* validateAndSetError (src/lib/debug.ts) *)

\* JavaScript truthiness of a prop or ref: the empty string and null are falsy
Truthy(value) == value \notin { "", "null" }

\* validateAndSetError(condition, errorMessage, setError) on a component c:
\* what it returns and the component after setError
validateAndSetError(c, condition, errorMessage) ==
  IF ~Truthy(condition)
  THEN [ returns |-> FALSE, after |-> [ c EXCEPT !.error = errorMessage ] ]
  ELSE [ returns |-> TRUE, after |-> c ]

----------------------------------------------------------------------------
(* VideoRestylingSDK (src/components/video-restyling-sdk.tsx)              *)
(*                                                                         *)
(* An invocation of startRestyling is a record of sdk.calls: the await it  *)
(* is suspended at (pc), the realtime client it asked for and the stream   *)
(* it captured.  The callbacks onRemoteStream and onError are called by    *)
(* the client at any time from connect() on until disconnect().            *)

MountedSdk ==
  [ mounted |-> TRUE,
    apiKey |-> "key", canvasElement |-> "canvas", videoOutputRef |-> "video",
    isConnected |-> FALSE, isConnecting |-> FALSE, error |-> "null",
    connectionState |-> "disconnected", connectionTime |-> 0,
    streamRef |-> 0, clientRef |-> 0, realtimeClientRef |-> 0, connectionTimerRef |-> 0,
    isManualDisconnectRef |-> FALSE,
    lastStart |-> << >>,   \* history: << >>, or <<apiKey>> when the last step of the
                           \* component was a call of startRestyling closing over apiKey
    calls |-> << >>,       \* the invocations of startRestyling that reached connect()
    intervals |-> << >> ]  \* the connection-time intervals: "running" or "cleared"

\* an invocation suspended at realtime.connect
ConnectingCall == [ pc |-> "connect", client |-> "active", stream |-> "live" ]

\* the outer catch block of startRestyling
SdkCatch(s, message) ==
  [ s EXCEPT !.error = message, !.isConnecting = FALSE, !.isConnected = FALSE,
             !.connectionState = "disconnected" ]

\* the try block of startRestyling up to the await of realtime.connect;
\* trackLive: the captured video track is live
SdkTry(s, trackLive) ==
  LET entered == [ s EXCEPT !.isConnecting = TRUE, !.error = "null",
                            !.isManualDisconnectRef = FALSE,
                            !.connectionState = "connecting" ]
      stopped == IF s.streamRef = 0 THEN entered
                 ELSE [ entered EXCEPT !.calls[s.streamRef].stream = "stopped" ]
  IN  IF ~trackLive
      THEN SdkCatch(stopped, "Canvas stream is not active")
      ELSE [ stopped EXCEPT !.calls = Append(@, ConnectingCall),
                            !.streamRef = Len(s.calls) + 1,
                            !.clientRef = Len(s.calls) + 1,
                            !.connectionTime = 0,
                            !.intervals = Append(@, "running"),
                            !.connectionTimerRef = Len(s.intervals) + 1 ]

\* startRestyling entering the try block after the first check only
SdkStartKeyOnly(s, trackLive) ==
  LET key == validateAndSetError(s, s.apiKey, "Please enter your Decart API key")
  IN  IF ~key.returns THEN key.after ELSE SdkTry(s, trackLive)

\* startRestyling up to its first await
SdkStartRestyling(s, trackLive) ==
  LET key == validateAndSetError(s, s.apiKey, "Please enter your Decart API key")
      canvas == validateAndSetError(s, s.canvasElement,
                                    "Canvas not ready. Please wait for the scene to load.")
      video == validateAndSetError(s, s.videoOutputRef, "Video element not ready")
  IN  IF ~key.returns THEN key.after
      ELSE IF ~canvas.returns THEN canvas.after
      ELSE IF ~video.returns THEN video.after
      ELSE SdkTry(s, trackLive)

\* onRemoteStream
onRemoteStream(s) ==
  [ s EXCEPT !.isConnected = TRUE, !.isConnecting = FALSE, !.connectionState = "connected" ]

\* onError
onError(s) ==
  [ s EXCEPT !.error = "Connection failed", !.isConnected = FALSE,
             !.isConnecting = FALSE, !.connectionState = "disconnected" ]

\* stopRestyling
SdkStopRestyling(s) ==
  LET closed(i, call) ==
        [ call EXCEPT !.client = IF i = s.realtimeClientRef THEN "disconnected" ELSE @,
                      !.stream = IF i = s.streamRef THEN "stopped" ELSE @ ]
  IN  [ s EXCEPT !.isManualDisconnectRef = TRUE,
                 !.intervals = [ t \in DOMAIN @ |->
                                   IF t = s.connectionTimerRef THEN "cleared" ELSE @[t] ],
                 !.connectionTimerRef = 0,
                 !.connectionTime = 0,
                 !.calls = [ i \in DOMAIN @ |-> closed(i, @[i]) ],
                 !.realtimeClientRef = 0, !.clientRef = 0, !.streamRef = 0,
                 !.isConnected = FALSE, !.connectionState = "disconnected",
                 !.error = "null" ]

\* a step of the component: a handler, a callback or a continuation of startRestyling
SdkStep(s) ==
  /\ sdk' = [ s EXCEPT !.lastStart = << >> ]
  /\ SceneUnchanged /\ UNCHANGED << vanilla, page, renderController >>

\* a step of the component: a call of startRestyling closing over apiKey
SdkStarted(s, apiKey) ==
  /\ sdk' = [ s EXCEPT !.lastStart = << apiKey >> ]
  /\ SceneUnchanged /\ UNCHANGED << vanilla, page, renderController >>

\* the Start button, enabled as its disabled attribute allows and shown while not connected
SdkClickStart ==
  \E trackLive \in BOOLEAN :
    /\ sdk.mounted /\ ~sdk.isConnected
    /\ ~(sdk.isConnecting \/ ~Truthy(sdk.apiKey) \/ ~Truthy(sdk.canvasElement))
    /\ Len(sdk.calls) < MaxCalls
    /\ SdkStarted(SdkStartRestyling(sdk, trackLive), sdk.apiKey)

\* startRestyling called whatever the button shows
SdkCallStart ==
  \E trackLive \in BOOLEAN :
    /\ sdk.mounted
    /\ Len(sdk.calls) < MaxCalls
    /\ SdkStarted(SdkStartRestyling(sdk, trackLive), sdk.apiKey)

\* the Stop button, shown while connected
SdkClickStop ==
  /\ sdk.mounted /\ sdk.isConnected
  /\ SdkStep(SdkStopRestyling(sdk))

\* realtime.connect resolves: the client is kept and the initial prompt sent
SdkConnectResolved ==
  \E i \in DOMAIN sdk.calls :
    /\ sdk.calls[i].pc = "connect"
    /\ SdkStep([ sdk EXCEPT !.calls[i].pc = "done", !.realtimeClientRef = i ])

\* realtime.connect rejects: the inner catch rethrows to the outer one
SdkConnectRejected ==
  \E i \in DOMAIN sdk.calls :
    /\ sdk.calls[i].pc = "connect"
    /\ SdkStep(SdkCatch([ sdk EXCEPT !.calls[i].pc = "caught", !.calls[i].client = "failed" ],
                        "Failed to connect"))

\* the client of an invocation delivers the transformed stream
SdkRemoteStream ==
  \E i \in DOMAIN sdk.calls :
    /\ sdk.calls[i].client = "active"
    /\ SdkStep(onRemoteStream(sdk))

\* the client of an invocation reports an error
SdkClientError ==
  \E i \in DOMAIN sdk.calls :
    /\ sdk.calls[i].client = "active"
    /\ SdkStep(onError(sdk))

\* a running connection-time interval ticks: setConnectionTime(prev => prev + 1)
SdkIntervalTick ==
  \E t \in DOMAIN sdk.intervals :
    /\ sdk.intervals[t] = "running"
    /\ sdk.connectionTime < MaxConnectionTime
    /\ SdkStep([ sdk EXCEPT !.connectionTime = @ + 1 ])

SdkNext ==
  \/ SdkClickStart
  \/ SdkClickStop
  \/ SdkConnectResolved
  \/ SdkConnectRejected
  \/ SdkRemoteStream
  \/ SdkClientError
  \/ SdkIntervalTick

----------------------------------------------------------------------------
(* FlightSimulator (src/app/page.tsx): the prompt, the portals and the     *)
(* manual prompt cooldown.  Time is in milliseconds; a timeout runs when   *)
(* it is due, before the clock moves on.                                   *)

\* the prompts of the first two portals and a prompt typed by the user
PortalPrompts == << "Watercolor painting style", "80s retro synthwave neon" >>
ManualPrompts == { "typed prompt" }

\* the delay of both timeouts
TimeoutDelay == 3000

\* the steps of the clock
ClockSteps == { 1000 }

MountedPage ==
  [ prompt |-> "Cyberpunk city at night", portalMessage |-> "",
    manualPromptCooldown |-> FALSE,
    now |-> 0,
    timeouts |-> {},       \* the pending timeouts: [at, callback]
    lastManual |-> {} ]    \* history: {} or {the time of the last handleManualPromptChange}

\* handlePortalTrigger(newPrompt, portalIndex)
handlePortalTrigger(g, newPrompt, portalIndex) ==
  IF g.manualPromptCooldown THEN g
  ELSE [ g EXCEPT !.prompt = newPrompt,
                  !.portalMessage = << "Portal activated: ", newPrompt >>,
                  !.timeouts = @ \cup { [ at |-> g.now + TimeoutDelay,
                                          callback |-> "setPortalMessage" ] } ]

\* handleManualPromptChange(newPrompt)
handleManualPromptChange(g, newPrompt) ==
  [ g EXCEPT !.prompt = newPrompt,
             !.manualPromptCooldown = TRUE,
             !.timeouts = @ \cup { [ at |-> g.now + TimeoutDelay,
                                     callback |-> "setManualPromptCooldown" ] },
             !.lastManual = { g.now } ]

\* the callback of a timeout
RunTimeout(g, timeout) ==
  LET rest == [ g EXCEPT !.timeouts = @ \ { timeout } ]
  IN  IF timeout.callback = "setManualPromptCooldown"
      THEN [ rest EXCEPT !.manualPromptCooldown = FALSE ]
      ELSE [ rest EXCEPT !.portalMessage = "" ]

PageStep(g) == page' = g /\ SceneUnchanged /\ UNCHANGED << vanilla, sdk, renderController >>

\* the plane flies through a portal
PortalTrigger ==
  \E portalIndex \in DOMAIN PortalPrompts :
    PageStep(handlePortalTrigger(page, PortalPrompts[portalIndex], portalIndex))

\* the user commits a prompt
ManualPromptChange ==
  \E newPrompt \in ManualPrompts : PageStep(handleManualPromptChange(page, newPrompt))

\* a timeout that is due runs
PageTimeout ==
  \E timeout \in page.timeouts :
    /\ timeout.at <= page.now
    /\ PageStep(RunTimeout(page, timeout))

\* the clock moves on
PageClock ==
  \E step \in ClockSteps :
    /\ page.now + step <= MaxClock * 1000
    /\ \A timeout \in page.timeouts : timeout.at > page.now
    /\ PageStep([ page EXCEPT !.now = @ + step ])

PageNext ==
  \/ PortalTrigger
  \/ ManualPromptChange
  \/ PageTimeout
  \/ PageClock

----------------------------------------------------------------------------
(* RenderController (src/unnamed/part_000).  Timestamps are in             *)
(* microseconds.                                                           *)

targetFPS == 25
frameInterval == 1000000 \div targetFPS

\* the gaps between animation frames: displays of 144, 60 and 30 Hz, a gap of
\* one frame interval and a stall
FrameGaps == { 6944, 16667, 33333, 40000, 100001 }

MountedRender == [ timestamp |-> 0, lastRenderTime |-> 0, invalidations |-> 0 ]

\* render(timestamp) taking the timestamp as the time of the last render
renderFromTimestamp(r, timestamp) ==
  LET elapsed == timestamp - r.lastRenderTime
  IN  IF elapsed >= frameInterval
      THEN [ timestamp |-> timestamp, lastRenderTime |-> timestamp,
             invalidations |-> r.invalidations + 1 ]
      ELSE [ r EXCEPT !.timestamp = timestamp ]

\* render(timestamp)
render(r, timestamp) ==
  LET elapsed == timestamp - r.lastRenderTime
  IN  IF elapsed >= frameInterval
      THEN [ timestamp |-> timestamp,
             lastRenderTime |-> timestamp - (elapsed % frameInterval),
             invalidations |-> r.invalidations + 1 ]
      ELSE [ r EXCEPT !.timestamp = timestamp ]

\* an animation frame
AnimationFrame ==
  \E gap \in FrameGaps :
    /\ renderController.timestamp + gap <= MaxTimestamp
    /\ renderController' = render(renderController, renderController.timestamp + gap)
    /\ SceneUnchanged /\ UNCHANGED << vanilla, sdk, page >>

RenderNext == AnimationFrame

\* the components around the canvas, freshly mounted
OverlayMounted ==
  /\ vanilla = MountedVanilla
  /\ sdk = MountedSdk
  /\ page = MountedPage
  /\ renderController = MountedRender

----------------------------------------------------------------------------
(* Terrain: the useFrame callback *)

\* mutant: Math.floor in place of Math.ceil
gridRadiusFloor == renderDistance \div chunkSize

\* Math.ceil(renderDistance / chunkSize)
gridRadius == -((-renderDistance) \div chunkSize)

\* the frame did step
Step(reg, step) == [ reg EXCEPT !.lastSteps = Append(@, step) ]

\* the inner loop: for (let dz = ...; dz <= gridRadius; dz++), from dz on
RECURSIVE GenerateColumn(_, _, _, _, _)
GenerateColumn(reg, planeX, planeZ, dx, dz) ==
  LET chunkX == IF IsNaN(planeX) THEN NaN ELSE (planeX \div chunkSize) + dx
      chunkZ == IF IsNaN(planeZ) THEN NaN ELSE (planeZ \div chunkSize) + dz
      centerX == chunkX * chunkSize
      centerZ == chunkZ * chunkSize
      examined == Step(reg, [ op |-> "examine", chunk |-> << chunkX, chunkZ >> ])
      next == IF /\ ~IsNaN(chunkX) /\ ~IsNaN(chunkZ)
                 /\ DistanceLess((centerX - planeX) * LenScale, (centerZ - planeZ) * LenScale,
                                 renderDistance)
              THEN generateChunk(Step(examined, [ op |-> "generateChunk",
                                                  chunk |-> << chunkX, chunkZ >> ]),
                                 chunkX, chunkZ)
              ELSE examined
  IN  IF dz > gridRadius THEN reg
      \* (the comparison has TLC evaluate this iteration before the next one)
      ELSE IF next = reg THEN GenerateColumn(reg, planeX, planeZ, dx, dz + 1)
      ELSE GenerateColumn(next, planeX, planeZ, dx, dz + 1)

\* the outer loop: for (let dx = ...; dx <= gridRadius; dx++), from dx on
RECURSIVE GenerateGrid(_, _, _, _)
GenerateGrid(reg, planeX, planeZ, dx) ==
  LET next == GenerateColumn(reg, planeX, planeZ, dx, -gridRadius)
  IN  IF dx > gridRadius THEN reg
      ELSE IF next = reg THEN GenerateGrid(reg, planeX, planeZ, dx + 1)
      ELSE GenerateGrid(next, planeX, planeZ, dx + 1)

\* mutant: the eviction pass runs before the generation
FrameEvictingFirst(reg, planeX, planeZ) ==
  GenerateGrid(
    Step(cleanupDistantChunks([ reg EXCEPT !.lastGenerated = {}, !.lastReturned = {},
                                           !.lastSteps = << >> ], planeX, planeZ),
         [ op |-> "cleanupDistantChunks" ]),
    planeX, planeZ, -gridRadius)

Frame(reg, planeX, planeZ) ==
  Step(cleanupDistantChunks(
         GenerateGrid([ reg EXCEPT !.lastGenerated = {}, !.lastReturned = {},
                                   !.lastSteps = << >> ],
                      planeX, planeZ, -gridRadius),
         planeX, planeZ),
       [ op |-> "cleanupDistantChunks" ])

\* mutant: the altitude enters the distances
FrameAtSlant(reg, position) == Frame(reg, position.x + position.y, position.z)

\* const planeX = planePosition.x; const planeZ = planePosition.z
FrameAt(reg, position) == Frame(reg, position.x, position.z)

Tick ==
  LET after == FrameAt(Registry, planePosition)
  IN  /\ chunksGenerated' = after.chunksGenerated
      /\ groundChunks' = after.groundChunks
      /\ features' = after.features
      /\ generationLog' = after.generationLog
      /\ featureOrigin' = after.featureOrigin
      /\ lastGenerated' = after.lastGenerated
      /\ lastReturned' = after.lastReturned
      /\ lastTick' = { planePosition }
      /\ lastSteps' = after.lastSteps
      /\ UNCHANGED << sinValues, planePosition, randomCalls, plane, frameLog, vanilla, sdk, page, renderController >>

\* the plane reports its position (onPositionChange = setPlanePosition)
setPlanePosition(p) ==
  /\ planePosition' = p
  /\ UNCHANGED << sinValues, chunksGenerated, features, groundChunks, lastTick,
                  generationLog, featureOrigin, lastGenerated, lastReturned,
                  lastSteps, randomCalls, plane, frameLog, vanilla, sdk, page, renderController >>

\* the registry of a freshly mounted Terrain
EmptyRegistry ==
  /\ chunksGenerated = {}
  /\ features = EmptyMap
  /\ groundChunks = EmptyMap
  /\ lastTick = {}
  /\ generationLog = EmptyMap
  /\ featureOrigin = {}
  /\ lastGenerated = {}
  /\ lastReturned = {}
  /\ lastSteps = << >>

Init ==
  /\ sinValues = SinFunction
  /\ planePosition = [x |-> 0, y |-> 0, z |-> 0]
  /\ EmptyRegistry
  /\ randomCalls = {}
  /\ PlaneMounted
  /\ OverlayMounted

Next ==
  \/ \E p \in ObserverPositions : setPlanePosition(p)
  \/ Tick

Spec == Init /\ [][Next]_vars

----------------------------------------------------------------------------
(* Terrain driven along the edge of the render distance *)

\* plane positions from which a chunk centre is just inside renderDistance
\* (chunk 3,1 is at 399.6 and 398.2 from the first two)
BoundaryPositions ==
  { [x |-> 660, y |-> 50, z |-> -190],
    [x |-> 700, y |-> 50, z |-> -160],
    [x |-> 300, y |-> 10, z |-> 0] }

BoundaryNext ==
  \/ \E p \in BoundaryPositions : setPlanePosition(p)
  \/ Tick

BoundarySpec == Init /\ [][BoundaryNext]_vars

----------------------------------------------------------------------------
(* Terrain fed positions with a NaN coordinate *)

\* positions of the plane, finite and with x, z or both NaN
NaNPositions ==
  { [x |-> 0,   y |-> 0,  z |-> 0],
    [x |-> 300, y |-> 10, z |-> 0],
    [x |-> NaN, y |-> 10, z |-> 0],
    [x |-> 300, y |-> 10, z |-> NaN],
    [x |-> NaN, y |-> NaN, z |-> NaN] }

NaNNext ==
  \/ \E p \in NaNPositions : setPlanePosition(p)
  \/ Tick

NaNSpec == Init /\ [][NaNNext]_vars

----------------------------------------------------------------------------
(* generateChunk on its own, over the values seededRandom can return *)

\* the chunk coordinates generateChunk is called with
GeneratorCoords == { << -2, 3 >>, << 1, -1 >>, << 0, 0 >> }

\* every value seededRandom can return: the bucket midpoints of [0,1)
RngValues == { q \in 1..(RngDen - 1) : q % 2 = 1 }

\* one value in each twentieth of [0,1): every outcome of the comparisons
\* with 0.5 and 0.6 and of Math.floor(r * k) for k = 2, 4, 5; and the first
\* and the last bucket of [0,1)
Rolls == { q \in RngValues : q % 12 = 5 \/ q = 1 \/ q = RngDen - 1 }

\* one density roll in each band: the first bucket from 0, 0.5, 0.65 and 0.85
BandSamples == { (b * RngDen) \div 100 + 1 : b \in { 0, 50, 65, 85 } }

\* the seeds generateChunk passes to seededRandom for the coordinates of
\* GeneratorCoords: seed + i * 5 with i <= 7 is the largest
GeneratorSeeds ==
  { ChunkSeed(c[1], c[2]) + salt : c \in GeneratorCoords, salt \in 0..(7 * 5) }

\* Math.sin such that the density roll (seed + 1) of every coordinate is
\* density, every other roll of odd salt is odd and every roll of even salt
\* is even
RandomSource(density, even, odd) ==
  [ s \in GeneratorSeeds |->
      IF \E c \in GeneratorCoords : s = ChunkSeed(c[1], c[2]) + 1 THEN density
      ELSE IF \E c \in GeneratorCoords :
                /\ s - ChunkSeed(c[1], c[2]) \in 0..(7 * 5)
                /\ (s - ChunkSeed(c[1], c[2])) % 2 = 0
      THEN even
      ELSE odd ]

\* a coordinate of the tabulated world whose generation, with Math.sin as it
\* is, writes a mountain
MountainCoords == { << 7, 2 >> }

\* one call generateChunk(c[1], c[2])
Generate(c) ==
  LET after == generateChunk([ Registry EXCEPT !.lastGenerated = {}, !.lastReturned = {} ],
                             c[1], c[2])
  IN  /\ chunksGenerated' = after.chunksGenerated
      /\ groundChunks' = after.groundChunks
      /\ features' = after.features
      /\ generationLog' = after.generationLog
      /\ featureOrigin' = after.featureOrigin
      /\ lastGenerated' = after.lastGenerated
      /\ lastReturned' = after.lastReturned
      /\ UNCHANGED << sinValues, planePosition, lastTick, lastSteps, randomCalls, plane, frameLog, vanilla, sdk, page, renderController >>

GeneratorInit ==
  /\ sinValues \in
       { RandomSource(density, roll, roll) : density \in RngValues, roll \in Rolls } \cup
       { RandomSource(density, even, odd) : density \in BandSamples, even \in Rolls, odd \in Rolls } \cup
       { SinFunction }
  /\ planePosition = [x |-> 0, y |-> 0, z |-> 0]
  /\ EmptyRegistry
  /\ randomCalls = {}
  /\ PlaneMounted
  /\ OverlayMounted

GeneratorNext ==
  \/ \E c \in GeneratorCoords : Generate(c)
  \/ \E c \in MountainCoords : sinValues = SinFunction /\ Generate(c)

GeneratorSpec == GeneratorInit /\ [][GeneratorNext]_vars

----------------------------------------------------------------------------
(* seededRandom on its own *)

\* <<seed, q>> with the seed m * 2^(-e) written << m, e >> (an integer when
\* e = 0) and q the bucket of Math.sin(seed) * 10000 minus its floor in
\* double arithmetic: q = 2 * floor(r * RngDen / 2) + 1, so r = 1.0 is
\* RngDen + 1.  For seed = -2^(-68), x = -10000 * 2^(-68), Math.floor(x) = -1
\* and x + 1 rounds to 1.0.
SeededRandomSamples ==
  { << << 0, 0 >>, 1 >>, << << 1, 0 >>, 171 >>, << << -1, 0 >>, 69 >>,
    << << 73856093, 0 >>, 39 >>, << << -19349663, 0 >>, 59 >>,
    << << -1, 1 >>, 179 >>, << << -1, 67 >>, 239 >>, << << -1, 68 >>, 241 >> }

RandomSeeds == { p[1] : p \in SeededRandomSamples }

\* one call seededRandom(seed)
CallSeededRandom(seed) ==
  /\ randomCalls' =
       randomCalls \cup
         { [ seed |-> seed, value |-> seededRandom(seed),
             again |-> \E a \in randomCalls : a.seed = seed ] }
  /\ UNCHANGED << sinValues, planePosition, chunksGenerated, features, groundChunks,
                  lastTick, generationLog, featureOrigin, lastGenerated, lastReturned,
                  lastSteps, plane, frameLog, vanilla, sdk, page, renderController >>

RandomInit ==
  /\ sinValues = [ s \in RandomSeeds |-> (CHOOSE p \in SeededRandomSamples : p[1] = s)[2] ]
  /\ planePosition = [x |-> 0, y |-> 0, z |-> 0]
  /\ EmptyRegistry
  /\ randomCalls = {}
  /\ PlaneMounted
  /\ OverlayMounted

RandomNext == \E seed \in RandomSeeds : CallSeededRandom(seed)

RandomSpec == RandomInit /\ [][RandomNext]_vars

----------------------------------------------------------------------------
(* The plane on its own *)

\* the keys pressed and the frame deltas explored: a frame at 60 per second
\* and a frame after a stall of one second
PlaneKeys == { "w", "s", "arrowUp", "arrowDown", "space", "shift" }
Deltas == { 16, 1000 }
MousePositions == { -Milli, Milli }

PlaneNext ==
  \/ \E k \in PlaneKeys :
       /\ frameLog.count < MaxFrames
       /\ Cardinality(plane.keys \cup { k }) <= MaxHeld
       /\ handleKeyDown(k)
  \/ \E k \in PlaneKeys : frameLog.count < MaxFrames /\ handleKeyUp(k)
  \/ \E y \in MousePositions : frameLog.count < MaxFrames /\ handleMouseMove(0, y)
  \/ \E button \in { 0, 2 } : frameLog.count < MaxFrames /\ handleMouseDown(button)
  \/ \E delta \in Deltas : PlaneFrame(delta)

PlaneInit ==
  /\ sinValues = << >>
  /\ planePosition = [x |-> 0, y |-> 0, z |-> 0]
  /\ EmptyRegistry
  /\ randomCalls = {}
  /\ PlaneMounted
  /\ OverlayMounted

PlaneSpec == PlaneInit /\ [][PlaneNext]_vars

----------------------------------------------------------------------------
(* The components around the canvas on their own *)

VanillaSpec == PlaneInit /\ [][VanillaNext]_vars

SdkSpec == PlaneInit /\ [][SdkNext]_vars

\* startRestyling of either component under every combination of its
\* preconditions; one of the two components is mounted
Props ==
  [ apiKey : { "", "key" }, canvasElement : { "null", "canvas" },
    videoOutputRef : { "null", "video" } ]

StartInit ==
  /\ sinValues = << >>
  /\ planePosition = [x |-> 0, y |-> 0, z |-> 0]
  /\ EmptyRegistry
  /\ randomCalls = {}
  /\ PlaneMounted
  /\ page = MountedPage
  /\ renderController = MountedRender
  /\ \E props \in Props, variant \in { "flight-simulator.tsx", "page.tsx" } :
       /\ vanilla = [ MountedVanilla EXCEPT !.mounted = variant = "flight-simulator.tsx",
                                            !.apiKey = props.apiKey,
                                            !.canvasElement = props.canvasElement,
                                            !.videoOutputRef = props.videoOutputRef ]
       /\ sdk = [ MountedSdk EXCEPT !.mounted = variant = "page.tsx",
                                    !.apiKey = props.apiKey,
                                    !.canvasElement = props.canvasElement,
                                    !.videoOutputRef = props.videoOutputRef ]

\* the user edits the API key field of the page: both components are
\* rendered again with the new prop
setApiKey(apiKey) ==
  /\ vanilla' = [ vanilla EXCEPT !.apiKey = apiKey, !.lastStart = << >> ]
  /\ sdk' = [ sdk EXCEPT !.apiKey = apiKey, !.lastStart = << >> ]
  /\ SceneUnchanged /\ UNCHANGED << page, renderController >>

StartNext ==
  \/ \E apiKey \in { "", "key" } : setApiKey(apiKey)
  \/ VanillaCallStart
  \/ SdkCallStart
  \/ VanillaNext
  \/ SdkNext

StartSpec == StartInit /\ [][StartNext]_vars

PageSpec == PlaneInit /\ [][PageNext]_vars

RenderSpec == PlaneInit /\ [][RenderNext]_vars

----------------------------------------------------------------------------
(* Vocabulary of the properties *)

\* the chunk coordinates the frames of the bounded world can touch, with margin
WorldCoords == (-6..9) \X (-5..5)

CoordKey(c) == ChunkKey(c[1], c[2])

\* XZ distance from the centre of chunk c to position p, compared with d
CentreWithin(c, p, d) ==
  DistanceLess((c[1] * chunkSize - p.x) * LenScale, (c[2] * chunkSize - p.z) * LenScale, d)
CentreBeyond(c, p, d) ==
  DistanceGreater((c[1] * chunkSize - p.x) * LenScale, (c[2] * chunkSize - p.z) * LenScale, d)

\* the coordinate a ground chunk is the tile of
TileChunk(id) ==
  CHOOSE c \in WorldCoords :
    groundChunks[id].position[1] = c[1] * chunkSize * LenScale /\
    groundChunks[id].position[3] = c[2] * chunkSize * LenScale

\* the ids one generation wrote
WrittenIds(content) == { content.features[j][1] : j \in 1..Len(content.features) }

\* the types of the features one generation wrote
WrittenTypes(content) == { content.features[j][2].type : j \in 1..Len(content.features) }

\* the density roll of coordinate c
DensityOf(c) == seededRandom(ChunkSeed(c[1], c[2]) + 1)

\* lo/100 <= r < hi/100
InBand(q, lo, hi) == lo * RngDen <= q * 100 /\ q * 100 < hi * RngDen

\* the square of the XZ distance from the centre of chunk c to position p
CentreDistanceSquared(c, p) ==
  (c[1] * chunkSize - p.x) * (c[1] * chunkSize - p.x) +
  (c[2] * chunkSize - p.z) * (c[2] * chunkSize - p.z)

\* the x and z distances, as lengths, of the feature written as o from the
\* centre of its chunk
OffsetX(o) == Abs(features[o.id].position[1] - o.chunk[1] * chunkSize * LenScale)
OffsetZ(o) == Abs(features[o.id].position[3] - o.chunk[2] * chunkSize * LenScale)

----------------------------------------------------------------------------
(* C1 *)

\* C1 (Coverage): after a frame at position p, every chunk coordinate whose
\* centre is at XZ distance < renderDistance from p is in chunksGenerated.
Coverage ==
  \A p \in lastTick : \A c \in WorldCoords :
    CentreWithin(c, p, renderDistance) => CoordKey(c) \in chunksGenerated

\* a frame has run at a position for which a coordinate on the last column of
\* the candidate window, gridRadius chunks from the plane's chunk, is in range
CoverageWitness ==
  \E p \in lastTick : \E c \in WorldCoords :
    /\ c[1] = (p.x \div chunkSize) + gridRadius
    /\ CentreWithin(c, p, renderDistance)
    /\ CoordKey(c) \in chunksGenerated

----------------------------------------------------------------------------
(* C2 *)

\* C2 (No holes): after every frame, every chunk coordinate whose centre is
\* at distance < renderDistance from the frame's position has its ground
\* tile in groundChunks.
NoHoles ==
  \A p \in lastTick : \A c \in WorldCoords :
    CentreWithin(c, p, renderDistance) => CoordKey(c) \in DOMAIN groundChunks

----------------------------------------------------------------------------
(* C3 *)

\* C3 (Bounded retention): after every frame, no ground tile and no feature
\* remains whose owning chunk's centre is at XZ distance >= cleanupDistance
\* from the frame's position.
BoundedRetention ==
  \A p \in lastTick :
    /\ \A id \in DOMAIN groundChunks : CentreWithin(TileChunk(id), p, cleanupDistance)
    /\ \A o \in featureOrigin : CentreWithin(o.chunk, p, cleanupDistance)

----------------------------------------------------------------------------
(* C4 *)

\* C4 (No churn at steady state): a frame that runs at the position of the
\* frame before it leaves chunksGenerated, groundChunks and features as they
\* were.
NoChurn ==
  [][ (Tick /\ lastTick = { planePosition }) =>
        /\ chunksGenerated' = chunksGenerated
        /\ groundChunks' = groundChunks
        /\ features' = features
        /\ lastGenerated' = {} ]_vars

\* a frame has run at the current position and left a registry with chunk
\* records, ground tiles and features: the next frame is a second one there
NoChurnWitness ==
  /\ lastTick = { planePosition }
  /\ lastGenerated = {}
  /\ chunksGenerated # {}
  /\ DOMAIN groundChunks # {}
  /\ DOMAIN features # {}

----------------------------------------------------------------------------
(* C5 *)

\* C5 (Ownership): after every frame, every feature and every ground tile in
\* the registry has its owning chunk coordinate in chunksGenerated.
Ownership ==
  /\ \A o \in featureOrigin : CoordKey(o.chunk) \in chunksGenerated
  /\ \A id \in DOMAIN groundChunks : CoordKey(TileChunk(id)) \in chunksGenerated

----------------------------------------------------------------------------
(* C6 *)

\* C6 (No half-written chunks): after every frame, every coordinate in
\* chunksGenerated has its ground tile and all the features its generation
\* wrote in the registry.
NoHalfWrittenChunks ==
  \A c \in DOMAIN generationLog :
    CoordKey(c) \in chunksGenerated =>
      /\ CoordKey(c) \in DOMAIN groundChunks
      /\ \A content \in generationLog[c] : WrittenIds(content) \subseteq DOMAIN features

----------------------------------------------------------------------------
(* C7 *)

\* C7 (Revisit regeneration): a frame leaves no coordinate in chunksGenerated
\* whose centre is beyond cleanupDistance; and when a frame runs within
\* renderDistance of a coordinate that was generated before and is no longer
\* in chunksGenerated, generateChunk runs for it again and the ground tile and
\* features it writes are those of the first visit.
RevisitRegeneration ==
  [][ Tick =>
        \A c \in DOMAIN generationLog :
          /\ CentreBeyond(c, planePosition, cleanupDistance) =>
               CoordKey(c) \notin chunksGenerated'
          /\ (CoordKey(c) \notin chunksGenerated /\
              CentreWithin(c, planePosition, renderDistance)) =>
               /\ [ chunk |-> c, again |-> TRUE ] \in lastGenerated'
               /\ CoordKey(c) \in chunksGenerated'
               /\ generationLog'[c] = generationLog[c]
               /\ \A content \in generationLog[c] :
                    /\ CoordKey(c) \in DOMAIN groundChunks'
                    /\ groundChunks'[CoordKey(c)] = content.ground
                    /\ \A j \in 1..Len(content.features) :
                         /\ content.features[j][1] \in DOMAIN features'
                         /\ features'[content.features[j][1]] = content.features[j][2] ]_vars

\* the last frame generated again a coordinate with features that an earlier
\* frame had generated and a frame in between had evicted
RevisitWitness ==
  \E g \in lastGenerated :
    /\ g.again
    /\ CoordKey(g.chunk) \in chunksGenerated
    /\ \E o \in featureOrigin : o.chunk = g.chunk

----------------------------------------------------------------------------
(* C8 *)

\* C8 (At most once per lifetime), as claimed: no coordinate is generated a
\* second time.
GeneratedAtMostOnce == \A g \in lastGenerated : ~g.again

\* C8, amended: a frame generates a coordinate only when its key is not in
\* chunksGenerated, so at most once while its chunk record lasts; a
\* coordinate whose record was evicted may be generated again.
GeneratedOncePerRecord ==
  [][ Tick => \A g \in lastGenerated' : CoordKey(g.chunk) \notin chunksGenerated ]_vars

\* the last frame generated one coordinate for the first time and another one
\* for the second time
GeneratedOncePerRecordWitness ==
  \E g, h \in lastGenerated : g.again /\ ~h.again

----------------------------------------------------------------------------
(* C9 *)

\* C9 (Uniqueness): no feature id in the registry was written for two
\* different (chunk, type, index); every feature is stored under its own id.
UniqueFeatureIds ==
  /\ \A a, b \in featureOrigin : a.id = b.id => a = b
  /\ \A id \in DOMAIN features : features[id].id = id
  /\ DOMAIN features = { o.id : o \in featureOrigin }

\* the registry holds features of two chunks and of two types with the same
\* index, and features of a chunk that the last frame generated again
UniqueFeatureIdsWitness ==
  /\ \E a, b \in featureOrigin :
       a.chunk # b.chunk /\ a.type # b.type /\ a.index = b.index
  /\ \E g \in lastGenerated : g.again /\ \E o \in featureOrigin : o.chunk = g.chunk /\ o.index > 0

----------------------------------------------------------------------------
(* C10 *)

\* C10 (Determinism): whatever the plane's path and the registry's contents,
\* every generation of a coordinate writes the same ground tile and the same
\* features as every other generation of it.
DeterministicGeneration ==
  \A c \in DOMAIN generationLog : Cardinality(generationLog[c]) = 1

\* coordinates with negative, zero and positive chunkX have been generated a
\* second time, from another registry than the first time
DeterministicGenerationWitness ==
  \E g, h, k \in lastGenerated :
    /\ g.again /\ h.again /\ k.again
    /\ g.chunk[1] < 0 /\ h.chunk[1] = 0 /\ k.chunk[1] > 0

----------------------------------------------------------------------------
(* C11 *)

\* { (x,z) : x,z in -3..3 and 150*sqrt(x^2+z^2) < 400 }
ScenarioFootprint ==
  { c \in (-3..3) \X (-3..3) : 150 * 150 * (c[1] * c[1] + c[2] * c[2]) < 400 * 400 }

\* a frame that runs at (0, _, 0) on an empty registry
FirstFrameAtOrigin ==
  /\ Tick
  /\ planePosition.x = 0 /\ planePosition.z = 0
  /\ chunksGenerated = {} /\ DOMAIN groundChunks = {} /\ DOMAIN features = {}

\* C11 (Concrete scenario): with chunkSize = 150, renderDistance = 400 and
\* cleanupDistance = 480, a frame at (0,0,0) on an empty registry leaves
\* chunksGenerated equal to the keys of ScenarioFootprint and groundChunks
\* with exactly one tile per such key, stored under its own id.
ConcreteScenario ==
  [][ FirstFrameAtOrigin =>
        /\ chunkSize = 150 /\ renderDistance = 400 /\ cleanupDistance = 480
        /\ chunksGenerated' = { CoordKey(c) : c \in ScenarioFootprint }
        /\ DOMAIN groundChunks' = { CoordKey(c) : c \in ScenarioFootprint }
        /\ \A id \in DOMAIN groundChunks' : groundChunks'[id].id = id ]_vars

\* the only frame so far ran at the origin and the registry holds the
\* footprint's records and tiles
ConcreteScenarioWitness ==
  /\ lastTick = { Positions[1] }
  /\ DOMAIN generationLog = ScenarioFootprint
  /\ chunksGenerated = { CoordKey(c) : c \in ScenarioFootprint }
  /\ DOMAIN groundChunks = chunksGenerated

----------------------------------------------------------------------------
(* C12 *)

\* C12 (Concrete scenario size), as claimed: the first frame at (0,0,0)
\* generates 37 chunks.
FootprintOf37 ==
  [][ FirstFrameAtOrigin =>
        Cardinality(lastGenerated') = 37 /\ Cardinality(chunksGenerated') = 37 ]_vars

\* C12, amended: the first frame at (0,0,0) generates 21 chunks, fewer than
\* the (2 * gridRadius + 1)^2 = 49 candidates of the window.
FootprintOf21 ==
  [][ FirstFrameAtOrigin =>
        /\ Cardinality(lastGenerated') = 21 /\ Cardinality(chunksGenerated') = 21
        /\ (2 * gridRadius + 1) * (2 * gridRadius + 1) = 49 ]_vars

\* the only frame so far ran at the origin and generated 21 coordinates, the
\* corner-most of them two chunks away on one axis and one on the other
FootprintOf21Witness ==
  /\ lastTick = { Positions[1] }
  /\ Cardinality(lastGenerated) = 21
  /\ { g.chunk : g \in lastGenerated } = DOMAIN generationLog
  /\ [ chunk |-> << 2, 1 >>, again |-> FALSE ] \in lastGenerated
  /\ \A g \in lastGenerated : g.chunk # << 2, 2 >> /\ g.chunk # << 3, 0 >>

----------------------------------------------------------------------------
(* C13 *)

\* C13 (Eviction boundary): after a frame, a chunk whose centre is at XZ
\* distance >= cleanupDistance from the frame's position, the distance
\* exactly cleanupDistance included, has no chunk record, no ground tile and
\* no feature left.
EvictionBoundary ==
  \A p \in lastTick : \A c \in DOMAIN generationLog :
    ~CentreWithin(c, p, cleanupDistance) =>
      /\ CoordKey(c) \notin chunksGenerated
      /\ CoordKey(c) \notin DOMAIN groundChunks
      /\ \A o \in featureOrigin : o.chunk # c

----------------------------------------------------------------------------
(* C14 *)

\* C14 (Hysteresis): nothing the generation step of a frame wrote (chunk
\* record, ground tile or feature) is removed by the eviction step of that
\* same frame.
Hysteresis ==
  \A g \in lastGenerated :
    /\ CoordKey(g.chunk) \in chunksGenerated
    /\ CoordKey(g.chunk) \in DOMAIN groundChunks
    /\ \A content \in generationLog[g.chunk] : WrittenIds(content) \subseteq DOMAIN features

----------------------------------------------------------------------------
(* C15 *)

\* C15 (Double commit fails loudly): no call of generateChunk for a
\* coordinate that is already in chunksGenerated returns normally; every such
\* call ends in an error.
DoubleCommitFailsLoudly == lastReturned = {}

----------------------------------------------------------------------------
(* C16 *)

\* C16 (Density bands): a chunk with density roll d gets no features when
\* d < 0.50, only 'trees' when 0.50 <= d < 0.65, only 'building' when
\* 0.65 <= d < 0.85 and only 'tower' or only 'mountain' when d >= 0.85; every
\* d lies in exactly one of the four bands.
DensityBands ==
  \A c \in DOMAIN generationLog : \A content \in generationLog[c] :
    LET d == DensityOf(c)
        types == WrittenTypes(content)
    IN  /\ InBand(d, 0, 50) => Len(content.features) = 0
        /\ InBand(d, 50, 65) => types = { "trees" }
        /\ InBand(d, 65, 85) => types = { "building" }
        /\ InBand(d, 85, 100) => (types = { "tower" } \/ types = { "mountain" })
        /\ Cardinality({ b \in { << 0, 50 >>, << 50, 65 >>, << 65, 85 >>, << 85, 100 >> } :
                           InBand(d, b[1], b[2]) }) = 1
        /\ { o.type : o \in { g \in featureOrigin : g.chunk = c } } = types

\* a chunk with a negative coordinate was generated with its density in the
\* first bucket at or above 0.65, and holds buildings
DensityBandsWitness ==
  \E c \in DOMAIN generationLog :
    /\ c[1] < 0
    /\ InBand(DensityOf(c), 65, 85) /\ ~InBand(DensityOf(c) - 2, 65, 85)
    /\ \E o \in featureOrigin : o.chunk = c /\ o.type = "building"

----------------------------------------------------------------------------
(* C17 *)

\* C17 (Feature counts): the number of features a generation writes, all
\* under different ids, is 0 in the empty band, 3..6 in the forest band, 4..8
\* in the city band and 1..2 in the landmark band: 0..8 for every chunk.
FeatureCounts ==
  \A c \in DOMAIN generationLog : \A content \in generationLog[c] :
    LET d == DensityOf(c)
        n == Len(content.features)
    IN  /\ Cardinality(WrittenIds(content)) = n
        /\ Cardinality({ id \in DOMAIN features : \E o \in featureOrigin : o.id = id /\ o.chunk = c }) = n
        /\ InBand(d, 0, 50) => n = 0
        /\ InBand(d, 50, 65) => n \in 3..6
        /\ InBand(d, 65, 85) => n \in 4..8
        /\ InBand(d, 85, 100) => n \in 1..2
        /\ n \in 0..8

\* a chunk of the city band was generated with eight buildings, the most
\* any band writes
FeatureCountsWitness ==
  \E c \in DOMAIN generationLog :
    /\ InBand(DensityOf(c), 65, 85)
    /\ Cardinality({ o \in featureOrigin : o.chunk = c }) = 8

----------------------------------------------------------------------------
(* C18 *)

\* C18 (Ground tile totality): generating a coordinate that is not in
\* chunksGenerated, negative coordinates and every density band included,
\* writes exactly one ground tile: under the chunk key, with that key as id,
\* at (chunkX * chunkSize, -2, chunkZ * chunkSize), in one of the five
\* colours of the palette.
GroundTileTotality ==
  [][ \A c \in GeneratorCoords :
        (Generate(c) /\ CoordKey(c) \notin chunksGenerated) =>
          /\ DOMAIN groundChunks' = DOMAIN groundChunks \cup { CoordKey(c) }
          /\ CoordKey(c) \notin DOMAIN groundChunks
          /\ \A id \in DOMAIN groundChunks : groundChunks'[id] = groundChunks[id]
          /\ groundChunks'[CoordKey(c)].id = CoordKey(c)
          /\ groundChunks'[CoordKey(c)].position =
               << c[1] * chunkSize * LenScale, -2 * LenScale, c[2] * chunkSize * LenScale >>
          /\ Len(groundColors) = 5
          /\ \E k \in 0..4 : groundChunks'[CoordKey(c)].color = groundColors[k + 1] ]_vars

\* the chunk at (-2, 3) was generated in the landmark band and its tile has
\* the last colour of the palette
GroundTileTotalityWitness ==
  /\ CoordKey(<< -2, 3 >>) \in DOMAIN groundChunks
  /\ groundChunks[CoordKey(<< -2, 3 >>)].color = groundColors[5]
  /\ InBand(DensityOf(<< -2, 3 >>), 85, 100)

----------------------------------------------------------------------------
(* C19 *)

\* altitudes the frame is compared at
Altitudes == { 0, 10, 50, 120 }

\* C19 (Altitude is ignored): from every registry state, the frame run at the
\* plane position and the frame run at the same x and z with any other
\* altitude leave the same chunksGenerated, groundChunks and features.
AltitudeIgnored ==
  [][ Tick =>
        \A y \in Altitudes :
          LET other == FrameAt(Registry, [ planePosition EXCEPT !.y = y ])
          IN  /\ other.chunksGenerated = chunksGenerated'
              /\ other.groundChunks = groundChunks'
              /\ other.features = features' ]_vars

\* the last frame ran above the ground, generated chunks and left an earlier
\* chunk evicted
AltitudeIgnoredWitness ==
  /\ \E p \in lastTick : p.y > 0
  /\ lastGenerated # {}
  /\ \E c \in DOMAIN generationLog : CoordKey(c) \notin chunksGenerated

----------------------------------------------------------------------------
(* C20 *)

----------------------------------------------------------------------------
(* C24 *)

\* C24 (Generation guard): a frame generates a coordinate only if its centre
\* is at XZ distance < renderDistance from the plane and its key was not in
\* chunksGenerated; every key the frame adds is one it generated.
GenerationGuard ==
  [][ Tick =>
        /\ \A g \in lastGenerated' :
             /\ CentreDistanceSquared(g.chunk, planePosition) < renderDistance * renderDistance
             /\ CoordKey(g.chunk) \notin chunksGenerated
        /\ \A c \in WorldCoords :
             (CoordKey(c) \in chunksGenerated' /\ CoordKey(c) \notin chunksGenerated) =>
               \E g \in lastGenerated' : g.chunk = c
        /\ \A c \in DOMAIN generationLog' :
             CentreDistanceSquared(c, planePosition) >= renderDistance * renderDistance =>
               /\ c \in DOMAIN generationLog
               /\ generationLog'[c] = generationLog[c] ]_vars

\* the last frame generated chunks and left alone a candidate of its window
\* that was not generated and whose centre is at renderDistance or beyond
GenerationGuardWitness ==
  \E p \in lastTick :
    /\ lastGenerated # {}
    /\ \E c \in WorldCoords :
         /\ Abs(c[1] - (p.x \div chunkSize)) <= gridRadius
         /\ Abs(c[2] - (p.z \div chunkSize)) <= gridRadius
         /\ CentreDistanceSquared(c, p) >= renderDistance * renderDistance
         /\ c \notin DOMAIN generationLog

----------------------------------------------------------------------------
(* C25 *)

\* C25 (generateChunk is a no-op on a present coordinate): for every
\* coordinate whose key is in chunksGenerated, generateChunk leaves
\* chunksGenerated, groundChunks and features as they are, also when the
\* coordinate's ground tile or features are gone.
GenerateChunkNoOp ==
  \A c \in DOMAIN generationLog :
    CoordKey(c) \in chunksGenerated =>
      LET after == generateChunk(Registry, c[1], c[2])
      IN  /\ after.chunksGenerated = chunksGenerated
          /\ after.groundChunks = groundChunks
          /\ after.features = features

\* the last frame called generateChunk for a coordinate in chunksGenerated
\* whose ground tile was gone, and for one a feature of which was gone
GenerateChunkNoOpWitness ==
  /\ \E c \in lastReturned :
       CoordKey(c) \in chunksGenerated /\ CoordKey(c) \notin DOMAIN groundChunks
  /\ \E c \in lastReturned : \E content \in generationLog[c] :
       CoordKey(c) \in chunksGenerated /\ ~(WrittenIds(content) \subseteq DOMAIN features)

----------------------------------------------------------------------------
(* C26 *)

\* C26 (Eviction frame): from every registry and for every plane position,
\* cleanupDistantChunks keeps every chunk record whose centre is at distance
\* <= cleanupDistance, every ground tile at distance < cleanupDistance and
\* every feature whose own position is at distance < cleanupDistance, and
\* what it keeps is what was there.
EvictionFrame ==
  \A p \in ObserverPositions :
    LET after == cleanupDistantChunks(Registry, p.x, p.z)
    IN  /\ after.chunksGenerated \subseteq chunksGenerated
        /\ \A c \in DOMAIN generationLog :
             (CoordKey(c) \in chunksGenerated /\
              CentreDistanceSquared(c, p) <= cleanupDistance * cleanupDistance) =>
               CoordKey(c) \in after.chunksGenerated
        /\ DOMAIN after.groundChunks \subseteq DOMAIN groundChunks
        /\ \A id \in DOMAIN after.groundChunks : after.groundChunks[id] = groundChunks[id]
        /\ \A id \in DOMAIN groundChunks :
             CentreDistanceSquared(TileChunk(id), p) < cleanupDistance * cleanupDistance =>
               id \in DOMAIN after.groundChunks
        /\ DOMAIN after.features \subseteq DOMAIN features
        /\ \A id \in DOMAIN after.features : after.features[id] = features[id]
        /\ \A id \in DOMAIN features :
             DistanceLess(features[id].position[1] - p.x * LenScale,
                          features[id].position[3] - p.z * LenScale, cleanupDistance) =>
               id \in DOMAIN after.features

\* a registry from which the eviction for some position keeps a chunk record
\* at exactly cleanupDistance and removes ground tiles, features and records
EvictionFrameWitness ==
  \E p \in ObserverPositions :
    LET after == cleanupDistantChunks(Registry, p.x, p.z)
    IN  /\ \E c \in DOMAIN generationLog :
             /\ CentreDistanceSquared(c, p) = cleanupDistance * cleanupDistance
             /\ CoordKey(c) \in after.chunksGenerated
        /\ after.chunksGenerated # chunksGenerated
        /\ DOMAIN after.groundChunks # DOMAIN groundChunks
        /\ DOMAIN after.features # DOMAIN features

----------------------------------------------------------------------------
(* C27 *)

\* C27 (Local offset bound): every feature is, in each of x and z, at most
\* 0.40 * chunkSize (trees), 0.45 * chunkSize (buildings) or 0.35 * chunkSize
\* (towers, mountains) from the centre of its chunk, hence strictly inside
\* the tile square of half-width chunkSize / 2.
LocalOffsetBound ==
  \A o \in featureOrigin :
    LET k == IF o.type = "trees" THEN 40 ELSE IF o.type = "building" THEN 45 ELSE 35
    IN  /\ OffsetX(o) * 100 <= k * chunkSize * LenScale
        /\ OffsetZ(o) * 100 <= k * chunkSize * LenScale
        /\ OffsetX(o) * 2 < chunkSize * LenScale
        /\ OffsetZ(o) * 2 < chunkSize * LenScale

\* a building more than 0.44 * chunkSize from its chunk centre in x and z
LocalOffsetBoundWitness ==
  \E o \in featureOrigin :
    /\ o.type = "building"
    /\ OffsetX(o) * 100 > 44 * chunkSize * LenScale
    /\ OffsetZ(o) * 100 > 44 * chunkSize * LenScale

----------------------------------------------------------------------------
(* C28 *)

\* C28 (Feature footprint stays in its chunk): for every feature, the XZ
\* square position +/- size/2 lies within the tile square of its chunk,
\* centre +/- chunkSize/2.
FootprintInChunk ==
  \A o \in featureOrigin :
    /\ OffsetX(o) * 2 + features[o.id].size[1] <= chunkSize * LenScale
    /\ OffsetZ(o) * 2 + features[o.id].size[3] <= chunkSize * LenScale

----------------------------------------------------------------------------
(* C29 *)

\* C29 (Landmark sub-variants are mutually exclusive per chunk): the
\* features of a chunk of the landmark band are all towers when the draw
\* seed + 4 is above 0.5 and all mountains otherwise; no chunk holds a tower
\* and a mountain.
LandmarkVariantExclusive ==
  \A c \in DOMAIN generationLog :
    LET variant == seededRandom(ChunkSeed(c[1], c[2]) + 4)
        mine == { o.type : o \in { g \in featureOrigin : g.chunk = c } }
    IN  /\ ~({ "tower", "mountain" } \subseteq mine)
        /\ InBand(DensityOf(c), 85, 100) =>
             mine = IF variant * 100 > 50 * RngDen THEN { "tower" } ELSE { "mountain" }

\* a chunk with two mountains: its variant draw is at most 0.5 and its
\* count draw at least 0.5
LandmarkVariantExclusiveWitness ==
  \E c \in DOMAIN generationLog :
    /\ Cardinality({ o \in featureOrigin : o.chunk = c /\ o.type = "mountain" }) = 2
    /\ seededRandom(ChunkSeed(c[1], c[2]) + 4) # seededRandom(ChunkSeed(c[1], c[2]) + 5)

----------------------------------------------------------------------------
(* C30 *)

\* C30 (Distinct salt per decision): within the generation of one chunk, no
\* two decisions (tint, density, count, variant, and each feature's x, z,
\* sizes and colour) read seededRandom at the same salt.
DistinctSalts ==
  \A c \in DOMAIN generationLog :
    \A a, b \in Draws(c[1], c[2]) : a.salt = b.salt => a = b

----------------------------------------------------------------------------
(* C21 *)

\* C21 (Plane altitude bounds): after every frame of the plane, whatever keys
\* are held, whatever the mouse state and the frame delta, the altitude
\* position.y is at least 1.5 and at most 200.
AltitudeBounds ==
  frameLog.count > 0 =>
    /\ 2 * plane.position.y >= 3 * Milli
    /\ plane.position.y <= 200 * Milli

\* the last frame moved the plane below 1.5 and the ground collision put it
\* at 1.5
AltitudeBoundsWitness ==
  /\ frameLog.last # << >>
  /\ 2 * frameLog.last[1].y < 3 * Milli
  /\ 2 * plane.position.y = 3 * Milli

----------------------------------------------------------------------------
(* C22 *)

\* C22 (Plane speed control priority): in every frame the target speed is 35
\* when Space is held, whatever else is held; 10 when Shift is held without
\* Space; with neither held, W or S leave a target of [12, 30] inside
\* [12, 30]; with none of the four held it is 20.  In every state the target
\* speed is in [10, 35].
SpeedPriority ==
  /\ [](10 * Milli <= plane.targetSpeed /\ plane.targetSpeed <= 35 * Milli)
  /\ [][ frameLog'.count = frameLog.count + 1 =>
           LET keys == plane.keys
               before == plane.targetSpeed
               after == plane'.targetSpeed
           IN  /\ "space" \in keys => after = 35 * Milli
               /\ ("shift" \in keys /\ "space" \notin keys) => after = 10 * Milli
               /\ (keys \cap { "space", "shift" } = {} /\ keys \cap { "w", "s" } # {} /\
                   12 * Milli <= before /\ before <= 30 * Milli) =>
                    (12 * Milli <= after /\ after <= 30 * Milli)
               /\ keys \cap { "space", "shift", "w", "s" } = {} => after = 20 * Milli ]_vars

\* the last frame ran with Space and Shift both held and left the target at 35
SpeedPriorityWitness ==
  /\ frameLog.last # << >>
  /\ { "space", "shift" } \subseteq frameLog.last[1].keys
  /\ plane.targetSpeed = 35 * Milli

----------------------------------------------------------------------------
(* C23 *)

----------------------------------------------------------------------------
(* C31 *)

\* the indices of the steps of operation op
StepsOf(steps, op) == { i \in 1..Len(steps) : steps[i].op = op }

\* C31 (Tick terminates with bounded work): from every registry and for
\* every position a frame completes; it examines exactly
\* (2 * gridRadius + 1)^2 = 49 candidates with gridRadius = 3, calls
\* generateChunk at most 49 times, each call for the candidate just examined,
\* and runs the eviction once, as its last step.
BoundedTick ==
  /\ gridRadius = 3
  /\ \A p \in ObserverPositions :
       LET steps == FrameAt(Registry, p).lastSteps
       IN  /\ Cardinality(StepsOf(steps, "examine")) = 49
           /\ Cardinality(StepsOf(steps, "generateChunk")) <= 49
           /\ \A i \in StepsOf(steps, "generateChunk") :
                /\ steps[i - 1].op = "examine"
                /\ steps[i - 1].chunk = steps[i].chunk
           /\ StepsOf(steps, "cleanupDistantChunks") = { Len(steps) }

\* the last frame examined 49 different candidates, called generateChunk 21
\* times and ran the eviction
BoundedTickWitness ==
  /\ lastTick # {}
  /\ Cardinality(StepsOf(lastSteps, "generateChunk")) = 21
  /\ Len(lastSteps) = 49 + 21 + 1
  /\ Cardinality({ lastSteps[i].chunk : i \in StepsOf(lastSteps, "examine") }) = 49

----------------------------------------------------------------------------
(* C32 *)

\* C32 (NaN observer): a frame whose plane position has x or z NaN runs
\* (it examines its candidates and runs the eviction), generates no chunk
\* and evicts nothing: chunksGenerated, groundChunks and features are left
\* exactly as they were.
NaNObserver ==
  [][ (Tick /\ (IsNaN(planePosition.x) \/ IsNaN(planePosition.z))) =>
        /\ chunksGenerated' = chunksGenerated
        /\ groundChunks' = groundChunks
        /\ features' = features
        /\ lastGenerated' = {}
        /\ lastReturned' = {}
        /\ lastTick' = { planePosition }
        /\ lastSteps'[Len(lastSteps')].op = "cleanupDistantChunks" ]_vars

\* the last frame read a NaN position and the registry still holds the
\* chunks, ground tiles and features of an earlier frame
NaNObserverWitness ==
  /\ \E p \in lastTick : IsNaN(p.x) \/ IsNaN(p.z)
  /\ StepsOf(lastSteps, "generateChunk") = {}
  /\ chunksGenerated # {}
  /\ DOMAIN groundChunks # {}
  /\ DOMAIN features # {}

----------------------------------------------------------------------------
(* C33 *)

\* C33: once stopRestyling has closed the WebSocket of a connection, the
\* close event of that WebSocket schedules no reconnect timeout, whatever
\* runs between the stop and the delivery of the event
NoReconnectAfterStop ==
  [][ \A i \in DOMAIN vanilla.calls :
        ( /\ vanilla.calls[i].stopped
          /\ vanilla.calls[i].ws # "CLOSED"
          /\ vanilla'.calls[i].ws = "CLOSED" )
        => vanilla'.timeouts = vanilla.timeouts ]_vars

----------------------------------------------------------------------------
(* C34 *)

OpenSockets == { i \in DOMAIN vanilla.calls : vanilla.calls[i].ws = "OPEN" }
OpenPeers == { i \in DOMAIN vanilla.calls : vanilla.calls[i].peer \in OpenPeerStates }

\* C34: at most one WebSocket and at most one RTCPeerConnection created by
\* startRestyling is open, and an open one is the one wsRef, respectively
\* peerConnectionRef, points to
SingleLiveConnection ==
  /\ Cardinality(OpenSockets) <= 1
  /\ Cardinality(OpenPeers) <= 1
  /\ OpenSockets \subseteq { vanilla.wsRef }
  /\ OpenPeers \subseteq { vanilla.peerConnectionRef }

----------------------------------------------------------------------------
(* C35 *)

\* a step in which a WebSocket fails or startRestyling reaches its catch block
FailurePath ==
  \/ \E i \in DOMAIN vanilla.calls :
       /\ vanilla.calls[i].ws # "CLOSED" /\ vanilla'.calls[i].ws = "CLOSED"
       /\ vanilla'.error = "WebSocket connection failed"
  \/ \E i \in DOMAIN vanilla.calls :
       vanilla.calls[i].pc # "caught" /\ vanilla'.calls[i].pc = "caught"
  \/ vanilla'.error = "Canvas resolution mismatch" /\ vanilla'.calls = vanilla.calls

\* C35: connectionState is "connected" exactly when isConnected, it is
\* "connecting" only when isConnecting, and a failure path leaves it
\* "disconnected"
StatusConsistent ==
  /\ [](vanilla.connectionState = "connected" <=> vanilla.isConnected)
  /\ [](vanilla.connectionState = "connecting" => vanilla.isConnecting)
  /\ [][ FailurePath => vanilla'.connectionState = "disconnected" ]_vars

----------------------------------------------------------------------------
(* C36 *)

RunningIntervals == { t \in DOMAIN sdk.intervals : sdk.intervals[t] = "running" }

\* C36: at most one connection-time interval is running, and none is
\* running while the component is disconnected and not connecting
ConnectionTimerReleased ==
  /\ Cardinality(RunningIntervals) <= 1
  /\ (sdk.connectionState = "disconnected" /\ ~sdk.isConnecting) => RunningIntervals = {}

----------------------------------------------------------------------------
(* C37 *)

\* the message startRestyling is to set for the first precondition that fails
PreconditionMessage(apiKey, canvasElement, videoOutputRef) ==
  IF apiKey = "" THEN "Please enter your Decart API key"
  ELSE IF canvasElement = "null" THEN "Canvas not ready. Please wait for the scene to load."
  ELSE IF videoOutputRef = "null" THEN "Video element not ready"
  ELSE "null"

\* the step is a call of startRestyling by the component c that finds a
\* precondition failing
StartRefused(c, after) ==
  /\ after # c
  /\ after.lastStart # << >>
  /\ PreconditionMessage(after.lastStart[1], c.canvasElement, c.videoOutputRef) # "null"

\* the component c but for the error it shows and the record of the call
ButForError(c, after) == [ c EXCEPT !.error = after.error, !.lastStart = after.lastStart ]

\* C37: startRestyling called with an empty API key, a null canvas or no
\* video element sets the error message of the first of them and changes
\* nothing else: isConnecting, isConnected and connectionState are as they
\* were, and no invocation, socket, stream, client or timer is added
StartPrecondition ==
  [][ /\ StartRefused(vanilla, vanilla') =>
           /\ vanilla'.error = PreconditionMessage(vanilla'.lastStart[1],
                                  vanilla.canvasElement, vanilla.videoOutputRef)
           /\ vanilla' = ButForError(vanilla, vanilla')
      /\ StartRefused(sdk, sdk') =>
           /\ sdk'.error = PreconditionMessage(sdk'.lastStart[1], sdk.canvasElement,
                                               sdk.videoOutputRef)
           /\ sdk' = ButForError(sdk, sdk') ]_vars

\* a start of the SDK component refused for its empty API key while an
\* earlier invocation is connecting and its interval running
StartPreconditionWitness ==
  /\ sdk.lastStart = << "" >> /\ sdk.error = "Please enter your Decart API key"
  /\ sdk.isConnecting /\ sdk.connectionState = "connecting"
  /\ sdk.intervals = << "running" >>

----------------------------------------------------------------------------
(* C38 *)

\* C38: for 3000 ms from a handleManualPromptChange on, a portal trigger is
\* ignored: handlePortalTrigger changes nothing, also when another manual
\* change came less than 3000 ms before this one
ManualPromptCooldown ==
  \A portalIndex \in DOMAIN PortalPrompts :
    (\E t \in page.lastManual : page.now - t < TimeoutDelay)
    => handlePortalTrigger(page, PortalPrompts[portalIndex], portalIndex) = page

----------------------------------------------------------------------------
(* C39 *)

\* C39: lastRenderTime is a multiple of the frame interval of 40 ms and not
\* after the current timestamp, invalidate() is called only at a timestamp
\* at least 40 ms after lastRenderTime, and up to a timestamp T it has been
\* called at most floor(T / 40 ms) times
RenderCap ==
  /\ [](/\ renderController.lastRenderTime % 40000 = 0
        /\ renderController.lastRenderTime <= renderController.timestamp
        /\ renderController.invalidations <= renderController.timestamp \div 40000)
  /\ [][ renderController'.invalidations # renderController.invalidations
         => /\ renderController'.invalidations = renderController.invalidations + 1
            /\ renderController'.timestamp - renderController.lastRenderTime >= 40000
       ]_vars

\* three renders at 60 frames per second, the last at a timestamp that is
\* not a multiple of 40 ms
RenderCapWitness ==
  /\ renderController.invalidations = 3
  /\ renderController.timestamp = 133336
  /\ renderController.lastRenderTime = 120000

====
